---- MODULE Spec2Model ----
(***************************************************************************)
(* State-machine model of solid-cli: the Orchestrator's adaptive run       *)
(* (src/src/Orchestrator.js, second class), the LLMAnalyzer gate           *)
(* (src/unnamed/part_002) and the CLI steps around it (src/src/index.js).  *)
(***************************************************************************)
EXTENDS Integers, Sequences, FiniteSets, TLC

(***************************************************************************)
(* Bounds of the model.                                                    *)
(***************************************************************************)
\* largest maxParallelAgents option tried
MaxParallel == 3
\* number of medium findings in the "many medium findings" Detector result
MaxMedium == 2

\* largest number of filler words before or after the body of a prompt
MaxPad == 3

\* longest findings list handed to the risk functions on their own
MaxFindings == 3

\* options.maxParallelAgents || 3
DefaultParallel == 3
\* iterations of the chunking loop that are followed
MaxChunks == 8
\* number of getSignatureAssessment calls
MaxCalls == 3

(***************************************************************************)
(* Orchestrator: Detector registries.                                      *)
(***************************************************************************)
\* Object.entries(initializeBaseAgents()) in insertion order
CoreKeys == <<"resource", "system", "persistence", "process", "network", "permission">>

\* Object.entries(initializeConditionalAgents()) in insertion order
ConditionalKeys == <<"blockchain", "defi">>

Range(s) == {s[n] : n \in 1..Len(s)}

CoreSet == Range(CoreKeys)

ConditionalSet == Range(ConditionalKeys)

AllKeys == CoreKeys \o ConditionalKeys

Min(a, b) == IF a < b THEN a ELSE b

(***************************************************************************)
(* Findings and Detector results.  A finding carries its risk, the words   *)
(* of its command/program/description text, and the labels of the two      *)
(* address fields a finding may have (remoteAddress, remoteAddr); an empty *)
(* label set is an absent field.                                           *)
(***************************************************************************)
Finding(r, w, ra, rd) == [risk |-> r, words |-> w, remoteAddress |-> ra, remoteAddr |-> rd]

Plain(r) == Finding(r, {"helper"}, {}, {})

\* a remoteAddress that is set but is not a string (an object)
NotAString == {"[object Object]"}

Rep(f, n) == [j \in 1..n |-> f]

\* null or undefined where an object is expected (a finding, a Detector
\* result, the result map)
NullValue == [null |-> TRUE]

IsNull(v) == "null" \in DOMAIN v

\* a value that is not an object where the result map is expected
NotAnObject == [notObject |-> TRUE]

IsObject(v) == ~IsNull(v) /\ "notObject" \notin DOMAIN v

\* a Detector result whose findings field is set but is not an array
NotArrayResult(r) ==
  [error |-> "", hasFindings |-> TRUE, findings |-> <<>>, overallRisk |-> r,
   notArray |-> TRUE]

\* Array.isArray(result.findings)
IsArrayFindings(e) == e.hasFindings /\ "notArray" \notin DOMAIN e

\* f && f.risk === r
HasRisk(f, r) == ~IsNull(f) /\ f.risk = r

\* BaseAgent.calculateOverallRisk
BaseRisk(findings) ==
  IF \E j \in 1..Len(findings) : findings[j].risk = "high" THEN "high"
  ELSE IF \E j \in 1..Len(findings) : findings[j].risk = "medium" THEN "medium"
  ELSE "low"

\* what analyze() of a Detector resolves to
OkResult(findings) ==
  [error |-> "", hasFindings |-> TRUE, findings |-> findings,
   overallRisk |-> BaseRisk(findings)]

\* the entry runAnalysis stores in its catch block
ErrorEntry ==
  [error |-> "analyze failed", hasFindings |-> FALSE, findings |-> <<>>,
   overallRisk |-> "unknown"]

\* the finding lists a Detector may report
FindingsMenu(key) ==
  CASE key = "resource" ->
         { <<>>, <<Plain("low")>> }
    [] key = "process" ->
         { <<Plain("low")>>,
           <<Finding("low", {"Uniswap", "helper"}, {}, {})>>,
           Rep(Finding("high", {"uniswap"}, {}, {}), 2) }
    [] key = "network" ->
         { <<Finding("low", {"curl"}, {}, {"example", "org"})>>,
           <<Finding("high", {"curl"}, {}, {"app", "uniswap", "org"})>>,
           <<Finding("low", {"curl"}, {"Etherscan", "io"}, {})>>,
           <<Finding("low", {"curl"}, NotAString, {})>> }
    [] key = "permission" ->
         { <<Plain("low")>>, Rep(Plain("medium"), MaxMedium), <<Plain("high")>> }
    [] key \in ConditionalSet ->
         { <<Plain("high")>> }
    [] OTHER ->
         { <<Plain("low")>>, Rep(Plain("medium"), MaxMedium) }

(***************************************************************************)
(* Orchestrator: pure functions.                                           *)
(***************************************************************************)
\* String.prototype.toLowerCase on the vocabulary of the model
ToLower(w) ==
  CASE w = "Uniswap" -> "uniswap"
    [] w = "Etherscan" -> "etherscan"
    [] w = "Abandon" -> "abandon"
    [] OTHER -> w

blockchainKeywords ==
  {"bitcoin", "ethereum", "crypto", "blockchain", "wallet", "mining",
   "metamask", "phantom", "coinbase", "binance", "uniswap", "defi"}

blockchainDomains ==
  {"etherscan", "uniswap", "opensea", "pancakeswap", "curve",
   "compound", "aave", "sushiswap", "1inch", "metamask"}

\* the keywords of `kws` that occur in the lower-cased text
Matched(text, kws) == {ToLower(w) : w \in text} \cap kws

\* mutant: the search text is not lower-cased
ProcessIndicatorsCaseSensitive(res) ==
  IF "process" \in DOMAIN res /\ res["process"].hasFindings
  THEN LET fs == res["process"].findings
           hit(f) == (f.words \cap blockchainKeywords) # {}
           ind(f) == [type |-> "process", source |-> f,
                      matched |-> f.words \cap blockchainKeywords]
           sel == SelectSeq(fs, hit)
       IN [j \in 1..Len(sel) |-> ind(sel[j])]
  ELSE <<>>

ProcessIndicators(res) ==
  IF "process" \in DOMAIN res /\ res["process"].hasFindings
  THEN LET fs == res["process"].findings
           hit(f) == Matched(f.words, blockchainKeywords) # {}
           ind(f) == [type |-> "process", source |-> f,
                      matched |-> Matched(f.words, blockchainKeywords)]
           sel == SelectSeq(fs, hit)
       IN [j \in 1..Len(sel) |-> ind(sel[j])]
  ELSE <<>>

NetworkIndicators(res) ==
  IF "network" \in DOMAIN res /\ res["network"].hasFindings
  THEN LET fs == res["network"].findings
           hit(f) == f.remoteAddress # {}
                     /\ Matched(f.remoteAddress, blockchainDomains) # {}
           ind(f) == [type |-> "network", source |-> f,
                      matched |-> Matched(f.remoteAddress, blockchainDomains)]
           sel == SelectSeq(fs, hit)
       IN [j \in 1..Len(sel) |-> ind(sel[j])]
  ELSE <<>>

extractBlockchainIndicators(res) == ProcessIndicators(res) \o NetworkIndicators(res)

\* finding.remoteAddress.toLowerCase() on a remoteAddress that is not a
\* string: extractBlockchainIndicators ends in a TypeError
ExtractionThrows(res) ==
  /\ "network" \in DOMAIN res
  /\ res["network"].hasFindings
  /\ \E j \in 1..Len(res["network"].findings) :
        res["network"].findings[j].remoteAddress = NotAString

\* mutant: the depth trigger is folded into the blockchain trigger
hasIndicatorsOrDepth(res) ==
  \/ Len(extractBlockchainIndicators(res)) > 0
  \/ \E k \in DOMAIN res : \E j \in 1..Len(res[k].findings) : res[k].findings[j].risk = "high"

\* mutant: any process finding counts as an indicator
hasAnyProcessFinding(res) ==
  \/ Len(extractBlockchainIndicators(res)) > 0
  \/ ("process" \in DOMAIN res /\ Len(res["process"].findings) > 0)

hasBlockchainIndicators(res) == Len(extractBlockchainIndicators(res)) > 0

\* mutant: medium is looked for before high
deriveRiskMediumFirst(findings, reportedRisk) ==
  IF Len(findings) = 0 THEN "low"
  ELSE IF \E j \in 1..Len(findings) : HasRisk(findings[j], "medium") THEN "medium"
  ELSE IF \E j \in 1..Len(findings) : HasRisk(findings[j], "high") THEN "high"
  ELSE "low"

\* the findings handed over are always an array here; reportedRisk is not read
deriveRiskFromFindings(findings, reportedRisk) ==
  IF Len(findings) = 0 THEN "low"
  ELSE IF \E j \in 1..Len(findings) : HasRisk(findings[j], "high") THEN "high"
  ELSE IF \E j \in 1..Len(findings) : HasRisk(findings[j], "medium") THEN "medium"
  ELSE "low"

\* ReportManager.deriveOverallRisk; a reportedRisk that is not given ("")
\* takes the default 'unknown'
deriveOverallRisk(findings, reportedRisk) ==
  IF Len(findings) = 0 THEN "low"
  ELSE IF \E j \in 1..Len(findings) : HasRisk(findings[j], "high") THEN "high"
  ELSE IF \E j \in 1..Len(findings) : HasRisk(findings[j], "medium") THEN "medium"
  ELSE IF reportedRisk \in {"", "unknown"} THEN "low"
  ELSE reportedRisk

\* the findings of a list that are counted under r; "low" is every finding
\* that is not null and neither high nor medium
RECURSIVE CountRisk(_, _)
CountRisk(findings, r) ==
  IF findings = <<>> THEN 0
  ELSE LET f == Head(findings)
           hit == IF r = "low"
                  THEN ~IsNull(f) /\ ~HasRisk(f, "high") /\ ~HasRisk(f, "medium")
                  ELSE HasRisk(f, r)
       IN (IF hit THEN 1 ELSE 0) + CountRisk(Tail(findings), r)

\* mutant: null findings are dropped from the list before it is counted
FindingsOfNonNull(e) ==
  IF IsArrayFindings(e) THEN SelectSeq(e.findings, LAMBDA f : ~IsNull(f)) ELSE <<>>

\* Array.isArray(result.findings) ? result.findings : []
FindingsOf(e) == IF IsArrayFindings(e) THEN e.findings ELSE <<>>

\* the keys of a result map in Object.entries order
Entries(res) == SelectSeq(AllKeys, LAMBDA k : k \in DOMAIN res)

RECURSIVE SumFindings(_, _, _)
SumFindings(res, keys, r) ==
  IF keys = <<>> THEN 0
  ELSE LET e == res[Head(keys)]
           n == IF IsNull(e) THEN 0
                ELSE IF e.error # "" THEN 0
                ELSE IF r = "total" THEN Len(FindingsOf(e))
                ELSE CountRisk(FindingsOf(e), r)
       IN n + SumFindings(res, Tail(keys), r)

\* mutant: a null entry is summarised like a Detector that found nothing
AgentSummaryNullAsEmpty(e) ==
  IF IsNull(e) THEN [findings |-> 0, risk |-> "low"]
  ELSE IF e.error # "" THEN [error |-> e.error]
  ELSE [findings |-> Len(FindingsOf(e)),
        risk |-> deriveRiskFromFindings(FindingsOf(e), e.overallRisk)]

\* mutant: a failed Detector is summarised like a Detector that found nothing
AgentSummaryHidingErrors(e) ==
  IF IsNull(e) THEN [error |-> "Result is null or undefined"]
  ELSE [findings |-> Len(FindingsOf(e)),
        risk |-> deriveRiskFromFindings(FindingsOf(e), e.overallRisk)]

\* summary.agentSummaries[key]
AgentSummary(e) ==
  IF IsNull(e) THEN [error |-> "Result is null or undefined"]
  ELSE IF e.error # "" THEN [error |-> e.error]
  ELSE [findings |-> Len(FindingsOf(e)),
        risk |-> deriveRiskFromFindings(FindingsOf(e), e.overallRisk)]

\* the error field of a summary is "" when the summary has none
generateSummary(res) ==
  IF ~IsObject(res)
  THEN [totalFindings |-> 0, highRiskFindings |-> 0, mediumRiskFindings |-> 0,
        lowRiskFindings |-> 0, agentSummaries |-> <<>>,
        error |-> "Invalid results data"]
  ELSE [totalFindings      |-> SumFindings(res, Entries(res), "total"),
        highRiskFindings   |-> SumFindings(res, Entries(res), "high"),
        mediumRiskFindings |-> SumFindings(res, Entries(res), "medium"),
        lowRiskFindings    |-> SumFindings(res, Entries(res), "low"),
        agentSummaries     |-> [k \in DOMAIN res |-> AgentSummary(res[k])],
        error              |-> ""]

needsExtendedForensics(res) ==
  LET summary == generateSummary(res)
  IN summary.highRiskFindings > 0 \/ summary.mediumRiskFindings >= 5

calculateOverallRisk(res) ==
  IF ~IsObject(res) THEN "unknown"
  ELSE LET kept == {x \in DOMAIN res : ~IsNull(res[x]) /\ res[x].overallRisk # ""}
           risks == {res[k].overallRisk : k \in kept}
       IN IF risks = {} THEN "unknown"
          ELSE IF "high" \in risks THEN "high"
          ELSE IF "medium" \in risks THEN "medium"
          ELSE "low"

\* a call that ends in a TypeError
Threw == "TypeError"

\* calculateOverallRisk of the first Orchestrator class: no filter, and
\* r.overallRisk is read from every entry
calculateOverallRiskLegacy(res) ==
  IF IsNull(res) THEN Threw
  ELSE IF ~IsObject(res) THEN "low"
  ELSE IF \E k \in DOMAIN res : IsNull(res[k]) THEN Threw
  ELSE LET risks == {res[k].overallRisk : k \in DOMAIN res}
       IN IF "high" \in risks THEN "high"
          ELSE IF "medium" \in risks THEN "medium"
          ELSE "low"

correlateFindings(res) == res

\* Array.prototype.slice: a negative bound counts from the end of the array
RelativeIndex(s, n) == IF n < 0 THEN (IF Len(s) + n < 0 THEN 0 ELSE Len(s) + n) ELSE Min(n, Len(s))

\* agentEntries.slice(from, to) with 0-based bounds
Slice(s, from, to) == SubSeq(s, RelativeIndex(s, from) + 1, RelativeIndex(s, to))

\* mutant: storing an entry drops the entries stored before
PutAlone(res, key, entry) == [x \in {key} |-> entry]

\* results[key] = entry
Put(res, key, entry) == [x \in DOMAIN res \cup {key} |-> IF x = key THEN entry ELSE res[x]]

EmptyMap == [x \in {} |-> ErrorEntry]

EmptyRun ==
  [agents |-> EmptyMap, overallRisk |-> "", summary |-> generateSummary(EmptyMap),
   analysisPhases |-> <<>>,
   adaptiveAnalysis |-> [blockchainAnalysisEnabled |-> FALSE,
                         extendedForensicsEnabled |-> FALSE,
                         totalAgentsRan |-> 0]]

(***************************************************************************)
(* LLMAnalyzer: prompts and the sensitive-data check.  A text is a         *)
(* sequence of whitespace-separated tokens: alphabetic words, the          *)
(* punctuation token ".", secrets of each shape the patterns look for, and *)
(* the markers the sanitizer writes.                                       *)
(***************************************************************************)
Hex64 == "abcdef1234567890abcdef1234567890abcdef1234567890abcdef1234567890"

EthAddr == "0x742d35Cc6634C0532925a3b844Bc9e7595f0bEb8"

BtcAddr == "1A1zP1eP5QGefi2DMPTfTL5SLmv7DivfNa"

\* an API token of letters and digits
ApiToken == "sk-1234567890abcdef1234567890abcdef12345678"

\* a base64 API token: 51 characters, no run of 32 letters and digits
Base64Token == "QWxhZGRpbjpvcGVuIHNlc2FtZQ+QWxhZGRpbjpvcGVuIHNlc2FtZQ"

\* key=value secrets
SeedSecret == "seed=hunter2hunter2"

PrivateEq == "private=0x742d35Cc6634C0532925a3b844Bc9e7595f0bEb8"

\* what the sanitizer's replacements leave of a token
RedactedPrivateKey == "***REDACTED_PRIVATE_KEY***"

RedactedEthAddr == "0x***REDACTED_ETH_ADDRESS***"

RedactedPrivateEq == "private=0x***REDACTED_ETH_ADDRESS***"

RedactedBtcAddr == "***REDACTED_BTC_ADDRESS***"

RedactedApiToken == "sk-***REDACTED_API_KEY***"

RedactedMnemonic == "***REDACTED_MNEMONIC***"

\* a word with a digit in it
MixedWord == "wallet2"

\* the tokens that are not alphabetic words
NonWords ==
  {MixedWord, Hex64, EthAddr, BtcAddr, ApiToken, Base64Token, SeedSecret, PrivateEq,
   RedactedPrivateKey, RedactedEthAddr, RedactedPrivateEq, RedactedBtcAddr,
   RedactedApiToken, RedactedMnemonic, "."}

IsWord(t) == t \notin NonWords

\* twenty-four distinct dictionary words, none of them a stopword
SeedWords ==
  <<"abandon", "ability", "able", "about", "above", "absent", "absorb", "abstract",
    "absurd", "abuse", "access", "accident", "account", "accuse", "achieve", "acid",
    "acoustic", "acquire", "across", "act", "action", "actor", "actress", "actual">>

\* filler words of a prompt built from analysis results
PadWords == <<"the", "system", "security", "analysis", "process">>

stopwords ==
  {"the", "and", "that", "with", "from", "this", "have", "will", "your",
   "macos", "analysis", "system", "security", "process", "service", "launch",
   "agent", "apple", "icloud", "profile"}

\* /\b([a-z]+(\s+[a-z]+){11,})\b/gi needs twelve words
SeedPatternMinWords == 12

\* words.length < 12 || words.length > 24
MinSeedWords == 12

MaxSeedWords == 24

\* stopwordHits <= 2
MaxStopwordHits == 2

\* uniqueWords >= words.length - 2
MaxDuplicateWords == 2

\* filteredMatches.slice(0, 2)
MaxSamples == 2

\* this.minFindingsToAnalyze = options.minFindingsToAnalyze || 1
minFindingsToAnalyze == 1

\* the prompts tried: filler, an optional full stop, a body, filler
PromptBodies ==
  { <<>>, <<Hex64>>, <<EthAddr>>,
    SubSeq(SeedWords, 1, MinSeedWords), SubSeq(SeedWords, 1, MaxSeedWords) }

Prompts ==
  { SubSeq(PadWords, 1, a) \o sep \o body \o SubSeq(PadWords, 1, b) :
      a \in 0..MaxPad, sep \in {<<>>, <<".">>}, body \in PromptBodies, b \in {0, MaxPad} }

\* the maximal runs of consecutive words of a token sequence
RECURSIVE Runs(_, _)
Runs(toks, cur) ==
  LET closed == IF cur = <<>> THEN <<>> ELSE <<cur>>
  IN IF toks = <<>> THEN closed
     ELSE IF IsWord(Head(toks)) THEN Runs(Tail(toks), Append(cur, Head(toks)))
     ELSE closed \o Runs(Tail(toks), <<>>)

\* prompt.matchAll(seed pattern): the pattern is greedy, so a match is a whole
\* run of at least twelve words
SeedPatternMatches(prompt) ==
  SelectSeq(Runs(prompt, <<>>), LAMBDA r : Len(r) >= SeedPatternMinWords)

\* mutant: repeated words are not counted
isLikelySeedPhraseAnyRepeats(candidate) ==
  LET words == [j \in 1..Len(candidate) |-> ToLower(candidate[j])]
      stopwordHits == Cardinality({j \in 1..Len(words) : words[j] \in stopwords})
  IN /\ Len(words) >= MinSeedWords
     /\ Len(words) <= MaxSeedWords
     /\ \A j \in 1..Len(words) : IsWord(words[j])
     /\ stopwordHits <= MaxStopwordHits

isLikelySeedPhrase(candidate) ==
  LET words == [j \in 1..Len(candidate) |-> ToLower(candidate[j])]
      stopwordHits == Cardinality({j \in 1..Len(words) : words[j] \in stopwords})
      uniqueWords == Cardinality(Range(words))
  IN /\ Len(words) >= MinSeedWords
     /\ Len(words) <= MaxSeedWords
     /\ \A j \in 1..Len(words) : IsWord(words[j])
     /\ stopwordHits <= MaxStopwordHits
     /\ uniqueWords >= Len(words) - MaxDuplicateWords

\* isLikelyApiKey on the tokens of the model: the part of each of these the
\* pattern matches is 24..120 characters long, mixes digits and letters and
\* has a uniqueness ratio >= 0.2
isLikelyApiKey(candidate) ==
  candidate \in {Hex64, EthAddr, PrivateEq, BtcAddr, ApiToken, Base64Token}

\* the tokens each pattern of the bank matches in
\* /0x[a-fA-F0-9]{40}/
EthPatternTokens == {EthAddr, PrivateEq}

\* /[a-fA-F0-9]{64,}/
PrivateKeyPatternTokens == {Hex64}

\* /(private|mnemonic|seed).*?[=:][a-zA-Z0-9+/]{8,}/i
KeyPhrasePatternTokens == {SeedSecret, PrivateEq}

\* /[a-zA-Z0-9+/]{32,}={0,2}/
ApiPatternTokens == {Hex64, EthAddr, PrivateEq, BtcAddr, ApiToken, Base64Token}

\* /\b[13][a-km-zA-HJ-NP-Z1-9]{25,34}\b/
BtcPatternTokens == {BtcAddr}

\* /\b[a-fA-F0-9]{16,}\b/
LongHexPatternTokens == {Hex64, ApiToken}

\* the part of ApiToken after "sk-"
ApiTokenBody == "1234567890abcdef1234567890abcdef12345678"

\* the characters of the texts a pattern can match
Chars(t) ==
  CASE t = Hex64 -> <<"a", "b", "c", "d", "e", "f", "1", "2", "3", "4", "5", "6", "7", "8", "9", "0", "a", "b", "c", "d", "e", "f", "1", "2", "3", "4", "5", "6", "7", "8", "9", "0", "a", "b", "c", "d", "e", "f", "1", "2", "3", "4", "5", "6", "7", "8", "9", "0", "a", "b", "c", "d", "e", "f", "1", "2", "3", "4", "5", "6", "7", "8", "9", "0">>
    [] t = EthAddr -> <<"0", "x", "7", "4", "2", "d", "3", "5", "C", "c", "6", "6", "3", "4", "C", "0", "5", "3", "2", "9", "2", "5", "a", "3", "b", "8", "4", "4", "B", "c", "9", "e", "7", "5", "9", "5", "f", "0", "b", "E", "b", "8">>
    [] t = BtcAddr -> <<"1", "A", "1", "z", "P", "1", "e", "P", "5", "Q", "G", "e", "f", "i", "2", "D", "M", "P", "T", "f", "T", "L", "5", "S", "L", "m", "v", "7", "D", "i", "v", "f", "N", "a">>
    [] t = ApiTokenBody -> <<"1", "2", "3", "4", "5", "6", "7", "8", "9", "0", "a", "b", "c", "d", "e", "f", "1", "2", "3", "4", "5", "6", "7", "8", "9", "0", "a", "b", "c", "d", "e", "f", "1", "2", "3", "4", "5", "6", "7", "8">>
    [] t = Base64Token -> <<"Q", "W", "x", "h", "Z", "G", "R", "p", "b", "j", "p", "v", "c", "G", "V", "u", "I", "H", "N", "l", "c", "2", "F", "t", "Z", "Q", "+", "Q", "W", "x", "h", "Z", "G", "R", "p", "b", "j", "p", "v", "c", "G", "V", "u", "I", "H", "N", "l", "c", "2", "F", "t", "Z", "Q">>
    [] t = SeedSecret -> <<"s", "e", "e", "d", "=", "h", "u", "n", "t", "e", "r", "2", "h", "u", "n", "t", "e", "r", "2">>
    [] t = PrivateEq -> <<"p", "r", "i", "v", "a", "t", "e", "=", "0", "x", "7", "4", "2", "d", "3", "5", "C", "c", "6", "6", "3", "4", "C", "0", "5", "3", "2", "9", "2", "5", "a", "3", "b", "8", "4", "4", "B", "c", "9", "e", "7", "5", "9", "5", "f", "0", "b", "E", "b", "8">>
    [] t = "abandon" -> <<"a", "b", "a", "n", "d", "o", "n">>
    [] t = "ability" -> <<"a", "b", "i", "l", "i", "t", "y">>
    [] t = "able" -> <<"a", "b", "l", "e">>
    [] t = "about" -> <<"a", "b", "o", "u", "t">>
    [] t = "above" -> <<"a", "b", "o", "v", "e">>
    [] t = "absent" -> <<"a", "b", "s", "e", "n", "t">>
    [] t = "absorb" -> <<"a", "b", "s", "o", "r", "b">>
    [] t = "abstract" -> <<"a", "b", "s", "t", "r", "a", "c", "t">>
    [] t = "absurd" -> <<"a", "b", "s", "u", "r", "d">>
    [] t = "abuse" -> <<"a", "b", "u", "s", "e">>
    [] t = "access" -> <<"a", "c", "c", "e", "s", "s">>
    [] t = "accident" -> <<"a", "c", "c", "i", "d", "e", "n", "t">>
    [] t = "account" -> <<"a", "c", "c", "o", "u", "n", "t">>
    [] t = "accuse" -> <<"a", "c", "c", "u", "s", "e">>
    [] t = "achieve" -> <<"a", "c", "h", "i", "e", "v", "e">>
    [] t = "acid" -> <<"a", "c", "i", "d">>
    [] t = "acoustic" -> <<"a", "c", "o", "u", "s", "t", "i", "c">>
    [] t = "acquire" -> <<"a", "c", "q", "u", "i", "r", "e">>
    [] t = "across" -> <<"a", "c", "r", "o", "s", "s">>
    [] t = "act" -> <<"a", "c", "t">>
    [] t = "action" -> <<"a", "c", "t", "i", "o", "n">>
    [] t = "actor" -> <<"a", "c", "t", "o", "r">>
    [] t = "actress" -> <<"a", "c", "t", "r", "e", "s", "s">>
    [] t = "actual" -> <<"a", "c", "t", "u", "a", "l">>
    [] t = "the" -> <<"t", "h", "e">>
    [] t = "system" -> <<"s", "y", "s", "t", "e", "m">>
    [] t = "security" -> <<"s", "e", "c", "u", "r", "i", "t", "y">>
    [] t = "analysis" -> <<"a", "n", "a", "l", "y", "s", "i", "s">>
    [] t = "process" -> <<"p", "r", "o", "c", "e", "s", "s">>
    [] t = "animal" -> <<"a", "n", "i", "m", "a", "l">>
    [] t = "Abandon" -> <<"A", "b", "a", "n", "d", "o", "n">>

\* words.join(' '): the characters of a run of words
RECURSIVE JoinWords(_)
JoinWords(run) ==
  IF run = <<>> THEN <<>>
  ELSE IF Len(run) = 1 THEN Chars(run[1])
  ELSE Chars(Head(run)) \o <<" ">> \o JoinWords(Tail(run))

\* m.substring(0, 20)
SampleLength == 20

TruncationMarker == <<"*", "*", "*">>

\* /[a-fA-F0-9]/
HexChars ==
  {"a", "b", "c", "d", "e", "f", "A", "B", "C", "D", "E", "F",
   "0", "1", "2", "3", "4", "5", "6", "7", "8", "9"}

\* m.length > 20 ? m.substring(0, 20) + '***' : m, then every hex character
\* replaced by '*'
MaskedSample(m) ==
  LET truncated == IF Len(m) > SampleLength
                   THEN SubSeq(m, 1, SampleLength) \o TruncationMarker ELSE m
  IN [j \in 1..Len(truncated) |->
        IF truncated[j] \in HexChars THEN "*" ELSE truncated[j]]

\* the text each pattern matches in a token
EthMatch(t) == EthAddr

ApiMatch(t) ==
  CASE t = PrivateEq -> EthAddr
    [] t = ApiToken -> ApiTokenBody
    [] OTHER -> t

LongHexMatch(t) == IF t = ApiToken THEN ApiTokenBody ELSE t

WholeToken(t) == t

\* the matches of a pattern in a text, in the order of the text; M gives the
\* matched text of each token of S
TokenMatches(prompt, M) ==
  LET hits == SelectSeq(prompt, LAMBDA t : t \in DOMAIN M)
  IN [j \in 1..Len(hits) |-> Chars(M[hits[j]])]

\* the matches each pattern of the bank keeps, in the bank's order (no token
\* of the model matches the wallet-import pattern)
PatternMatches(prompt) ==
  LET seeds == SelectSeq(SeedPatternMatches(prompt), isLikelySeedPhrase)
  IN << [name |-> "Ethereum address",
         matches |-> TokenMatches(prompt, [t \in EthPatternTokens |-> EthMatch(t)])],
        [name |-> "Potential private key",
         matches |-> TokenMatches(prompt, [t \in PrivateKeyPatternTokens |-> WholeToken(t)])],
        [name |-> "Private key phrase",
         matches |-> TokenMatches(prompt, [t \in KeyPhrasePatternTokens |-> WholeToken(t)])],
        [name |-> "API key or token",
         matches |-> TokenMatches(prompt,
                        [t \in {u \in ApiPatternTokens : isLikelyApiKey(u)} |-> ApiMatch(t)])],
        [name |-> "Potential seed phrase",
         matches |-> [j \in 1..Len(seeds) |-> JoinWords(seeds[j])]],
        [name |-> "Bitcoin address",
         matches |-> TokenMatches(prompt, [t \in BtcPatternTokens |-> WholeToken(t)])],
        [name |-> "Long hex string",
         matches |-> TokenMatches(prompt, [t \in LongHexPatternTokens |-> LongHexMatch(t)])] >>

\* filteredMatches.length of each pattern
PatternCounts(prompt) ==
  LET rows == PatternMatches(prompt)
  IN [j \in 1..Len(rows) |->
        [name |-> rows[j].name, count |-> Len(rows[j].matches),
         matches |-> rows[j].matches]]

performSecurityCheck(prompt) ==
  LET kept == SelectSeq(PatternCounts(prompt), LAMBDA c : c.count > 0)
  IN [ran |-> TRUE,
      hasSensitiveData |-> Len(kept) > 0,
      sensitivePatterns |->
        [j \in 1..Len(kept) |->
           [name |-> kept[j].name, count |-> kept[j].count,
            samples |-> [i \in 1..Min(kept[j].count, MaxSamples) |->
                           MaskedSample(kept[j].matches[i])]]],
      promptLength |-> Len(prompt),
      text |-> prompt]

(***************************************************************************)
(* ReportSanitizer.sanitizeText: the patterns are applied one after the    *)
(* other, in the order of initializePatterns, each to the result of the    *)
(* one before.                                                             *)
(***************************************************************************)
Replace(text, from, to) ==
  [j \in 1..Len(text) |-> IF text[j] = from THEN to ELSE text[j]]

\* privateKey: /[a-fA-F0-9]{64}/g
PrivateKeyPass(text) == Replace(text, Hex64, RedactedPrivateKey)

\* ethAddress: /0x[a-fA-F0-9]{40}/g
EthAddressPass(text) ==
  Replace(Replace(text, EthAddr, RedactedEthAddr), PrivateEq, RedactedPrivateEq)

\* btcAddress: /[13][a-km-zA-HJ-NP-Z1-9]{25,34}/g
BtcAddressPass(text) == Replace(text, BtcAddr, RedactedBtcAddr)

\* apiKey: /[a-zA-Z0-9]{32,}={0,2}/g (the base64 token has no run of 32)
ApiKeyPass(text) == Replace(text, ApiToken, RedactedApiToken)

\* password: /(password|secret|key|token)[\s=:]+[a-zA-Z0-9+/]{8,}/gi matches
\* in no token of the model
PasswordPass(text) == text

\* the words of the mnemonic pattern's list that are in the model
MnemonicListWords == {"animal"}

\* .{0,200}
MnemonicReach == 200

\* the number of tokens after a match's first word that the match takes in
\* whole, each with the blank before it
RECURSIVE TakenTokens(_, _)
TakenTokens(rest, room) ==
  IF rest = <<>> THEN 0
  ELSE IF Len(Head(rest)) + 1 <= room
       THEN 1 + TakenTokens(Tail(rest), room - Len(Head(rest)) - 1)
       ELSE 0

\* mnemonic: /\b(word|agree|...|zone)\b.{0,200}/gi
RECURSIVE MnemonicPass(_)
MnemonicPass(text) ==
  IF text = <<>> THEN <<>>
  ELSE IF Head(text) \in MnemonicListWords
       THEN LET n == TakenTokens(Tail(text), MnemonicReach)
            IN <<RedactedMnemonic>> \o MnemonicPass(SubSeq(text, n + 2, Len(text)))
       ELSE <<Head(text)>> \o MnemonicPass(Tail(text))

\* hexString: /[a-fA-F0-9]{16,31}/g: what is left of the API token by then
\* has no such run, nor has any other token
HexStringPass(text) == text

sanitizeText(text) ==
  HexStringPass(MnemonicPass(PasswordPass(ApiKeyPass(BtcAddressPass(
    EthAddressPass(PrivateKeyPass(text)))))))

\* the texts handed to sanitizeText: filler or a word of the mnemonic list,
\* then nothing, a secret of one of the covered shapes or a seed phrase, then
\* filler
TextBodies ==
  { <<>>, <<Hex64>>, <<EthAddr>>, <<BtcAddr>>, <<ApiToken>>, <<Base64Token>>,
    <<SeedSecret>>, <<PrivateEq>>,
    SubSeq(SeedWords, 1, MinSeedWords), SubSeq(SeedWords, 1, MaxSeedWords),
    SubSeq(SeedWords, 1, MinSeedWords) \o <<"animal">> \o SubSeq(SeedWords, 13, 15),
    SubSeq(SeedWords, 1, 6) \o <<"animal">> \o SubSeq(SeedWords, 7, 11) }

Texts ==
  { pre \o body \o post :
      pre \in {SubSeq(PadWords, 1, a) : a \in 0..MaxPad} \cup {<<"animal">>},
      body \in TextBodies,
      post \in {<<>>, SubSeq(PadWords, 1, MaxPad)} }

\* d times the word w
Copies(w, d) == [j \in 1..d |-> w]

\* the word counts around the two ends of the accepted range
CandidateLengths ==
  (MinSeedWords - 1)..(MinSeedWords + 1) \cup (MaxSeedWords - 1)..(MaxSeedWords + 1)

\* the shapes of the candidates tried: n words in all, of which s are
\* stopwords and d are copies of one word
CandidateShapes ==
  { sh \in CandidateLengths \X (0..(MaxStopwordHits + 1)) \X (0..(MaxDuplicateWords + 1)) :
      sh[1] - sh[2] - sh[3] <= Len(SeedWords) }

\* the candidates tried, with or without a word that has a digit in it
Candidates ==
  {<<>>} \cup
  { SubSeq(PadWords, 1, sh[2]) \o Copies(w, sh[3])
      \o SubSeq(SeedWords, 1, sh[1] - sh[2] - sh[3]) \o mixed :
      sh \in CandidateShapes,
      w \in {"abandon", "Abandon", "the"},
      mixed \in {<<>>, <<MixedWord>>} }

NoCheck ==
  [ran |-> FALSE, hasSensitiveData |-> FALSE, sensitivePatterns |-> <<>>,
   promptLength |-> 0, text |-> <<>>]

\* what analyze() resolves to: no field of it is a securityCheck
Response(text) == [present |-> TRUE, analysis |-> text, hasSecurityCheck |-> FALSE]

NullAnalysis == [present |-> FALSE, analysis |-> "", hasSecurityCheck |-> FALSE]

(***************************************************************************)
(* State.                                                                  *)
(***************************************************************************)
VARIABLES
  parallelExecution,   \* this.parallelExecution
  maxParallelAgents,   \* this.maxParallelAgents
  pc,                  \* position of runAnalysis
  chunkIdx,            \* the chunking loop's i
  chunks,              \* the chunks built so far
  chunkNo,             \* the chunk being awaited (0: none yet)
  status,              \* per Detector: "idle", "running", "settled", "hung"
  results,             \* the results map of runAnalysis
  invoked,             \* per Detector: number of analyze() calls
  produced,            \* per Detector: what analyze() produced ("none", "threw" or "returned")
  returned,            \* per Detector: the value analyze() resolved to
  completedAgents,
  totalAgents,
  extendedPhases,
  analysisPhases,
  finalRun,            \* this.results
  variant,             \* which LLMAnalyzer class is loaded: "gated" or "ungated"
  enabled,             \* LLMAnalyzer.enabled
  apiKey,              \* whether LLMAnalyzer.apiKey is set
  enableLogging,       \* LLMAnalyzer.enableLogging
  totalFindings,       \* results.summary.totalFindings
  builtPrompt,         \* what buildPrompt(results, options) returns
  promptOverride,      \* options.promptOverride (<<>>: not given)
  lpc,                 \* position of the CLI's AI step
  prompt,              \* analyze's local prompt
  securityCheck,       \* analyze's local securityCheck
  sentPrompts,         \* the payloads handed to the provider
  logFiles,            \* the files written under logDir
  thrown,              \* the message of the error analyze() threw
  response,            \* what analyze() resolved to
  llmAnalysis,         \* SecurityAnalysisCLI.llmAnalysis
  spinner,             \* the state of the 'Running AI analysis...' spinner
  continueWithout,     \* the answer to 'Continue without AI analysis?'
  reportSensitivePatterns, \* prepareReportData().sensitivePatterns
  fn,                  \* the function called on its own ("none": no call)
  argResults,          \* its results argument
  argFindings,         \* its findings argument
  argReported,         \* its reportedRisk argument ("": not given)
  argText,             \* its text argument
  sanitized,           \* what sanitizeText returned
  out,                 \* what the call returned
  cacheGiven,          \* whether the callers pass the shared cache
  cache,               \* the shared Map: resolved path -> assessment
  calls,               \* the getSignatureAssessment calls, each with its position
  spctlIssued,         \* per path, the spctl commands issued
  codesignIssued       \* per path, the codesign commands issued

gateVars ==
  <<variant, enabled, apiKey, enableLogging, totalFindings, builtPrompt, promptOverride,
    lpc, prompt, securityCheck, sentPrompts, logFiles, thrown, response, llmAnalysis,
    spinner, continueWithout, reportSensitivePatterns>>

orchVars ==
  <<parallelExecution, maxParallelAgents, pc, chunkIdx, chunks, chunkNo, status,
    results, invoked, produced, returned, completedAgents, totalAgents,
    extendedPhases, analysisPhases, finalRun>>

fnVars == <<fn, argResults, argFindings, argReported, argText, sanitized, out>>

sigVars == <<cacheGiven, cache, calls, spctlIssued, codesignIssued>>

vars == <<orchVars, gateVars, fnVars, sigVars>>

InFlight == {k \in Range(AllKeys) : status[k] \in {"running", "hung"}}

(***************************************************************************)
(* Orchestrator.runAnalysis                                                *)
(***************************************************************************)
\* the state after new Orchestrator(options), before runAnalysis
OrchConstructed ==
  /\ pc = "start"
  /\ chunkIdx = 0
  /\ chunks = <<>>
  /\ chunkNo = 0
  /\ status = [k \in Range(AllKeys) |-> "idle"]
  /\ results = EmptyMap
  /\ invoked = [k \in Range(AllKeys) |-> 0]
  /\ produced = [k \in Range(AllKeys) |-> "none"]
  /\ returned = [k \in Range(AllKeys) |-> ErrorEntry]
  /\ completedAgents = 0
  /\ totalAgents = 0
  /\ extendedPhases = <<>>
  /\ analysisPhases = <<>>
  /\ finalRun = EmptyRun

OrchInit ==
  /\ parallelExecution \in BOOLEAN
  /\ maxParallelAgents \in (IF parallelExecution THEN 1..MaxParallel ELSE {DefaultParallel})
  /\ OrchConstructed

\* the values of options.maxParallelAgents tried when any value is allowed: a
\* negative number, 0, 1, and chunk sizes around the number of core Detectors
OptionValues == {-1, 0, 1, Len(CoreKeys) - 1, Len(CoreKeys), Len(CoreKeys) + 1}

\* this.maxParallelAgents = options.maxParallelAgents || 3
OrchInitAnyOption ==
  /\ parallelExecution \in BOOLEAN
  /\ \E option \in (IF parallelExecution THEN OptionValues ELSE {0}) :
       maxParallelAgents = IF option = 0 THEN DefaultParallel ELSE option
  /\ OrchConstructed

\* lines 320-329: set-up and the choice of the branch
Begin ==
  /\ pc = "start"
  /\ totalAgents' = Len(CoreKeys)
  /\ pc' = IF parallelExecution THEN "chunking" ELSE "sequential"
  /\ UNCHANGED <<sigVars, fnVars, gateVars, parallelExecution, maxParallelAgents, chunkIdx, chunks, chunkNo,
                 status, results, invoked, produced, returned, completedAgents,
                 extendedPhases, analysisPhases, finalRun>>

\* one iteration of the chunking loop
ChunkStep ==
  /\ pc = "chunking"
  /\ chunkIdx < Len(CoreKeys)
  /\ Len(chunks) < MaxChunks
  /\ chunks' = Append(chunks, Slice(CoreKeys, chunkIdx, chunkIdx + maxParallelAgents))
  /\ chunkIdx' = chunkIdx + maxParallelAgents
  /\ UNCHANGED <<sigVars, fnVars, gateVars, parallelExecution, maxParallelAgents, pc, chunkNo, status, results,
                 invoked, produced, returned, completedAgents, totalAgents,
                 extendedPhases, analysisPhases, finalRun>>

\* the chunking loop ends
ChunkDone ==
  /\ pc = "chunking"
  /\ ~(chunkIdx < Len(CoreKeys))
  /\ pc' = "chunks"
  /\ UNCHANGED <<sigVars, fnVars, gateVars, parallelExecution, maxParallelAgents, chunkIdx, chunks, chunkNo,
                 status, results, invoked, produced, returned, completedAgents,
                 totalAgents, extendedPhases, analysisPhases, finalRun>>

\* mutant: the next chunk is issued without awaiting Promise.all of the last one
StartChunkNoJoin ==
  /\ pc = "chunks"
  /\ chunkNo < Len(chunks)
  /\ \A k \in Range(chunks[chunkNo + 1]) : status[k] = "idle"
  /\ LET members == Range(chunks[chunkNo + 1])
     IN /\ status' = [k \in Range(AllKeys) |-> IF k \in members THEN "running" ELSE status[k]]
        /\ invoked' = [k \in Range(AllKeys) |-> IF k \in members THEN invoked[k] + 1 ELSE invoked[k]]
  /\ chunkNo' = chunkNo + 1
  /\ UNCHANGED <<sigVars, fnVars, gateVars, parallelExecution, maxParallelAgents, pc, chunkIdx, chunks, results,
                 produced, returned, completedAgents, totalAgents, extendedPhases,
                 analysisPhases, finalRun>>

\* chunk.map(async ...): every Detector of the next chunk is invoked
StartChunk ==
  /\ pc = "chunks"
  /\ chunkNo < Len(chunks)
  /\ \A k \in Range(AllKeys) : status[k] \in {"idle", "settled"}
  /\ IF chunkNo = 0 THEN TRUE
     ELSE \A k \in Range(chunks[chunkNo]) : status[k] = "settled"
  /\ LET members == Range(chunks[chunkNo + 1])
     IN /\ status' = [k \in Range(AllKeys) |-> IF k \in members THEN "running" ELSE status[k]]
        /\ invoked' = [k \in Range(AllKeys) |-> IF k \in members THEN invoked[k] + 1 ELSE invoked[k]]
  /\ chunkNo' = chunkNo + 1
  /\ UNCHANGED <<sigVars, fnVars, gateVars, parallelExecution, maxParallelAgents, pc, chunkIdx, chunks, results,
                 produced, returned, completedAgents, totalAgents, extendedPhases,
                 analysisPhases, finalRun>>

\* the sequential branch and the conditional loop: await agent.analyze() one by one
NextInOrder(keys) ==
  IF \E n \in 1..Len(keys) : status[keys[n]] # "settled"
  THEN LET n == CHOOSE m \in 1..Len(keys) :
                  /\ status[keys[m]] # "settled"
                  /\ \A l \in 1..(m - 1) : status[keys[l]] = "settled"
       IN IF status[keys[n]] = "idle" THEN {keys[n]} ELSE {}
  ELSE {}

StartOne(keys) ==
  \E k \in NextInOrder(keys) :
    /\ status' = [status EXCEPT ![k] = "running"]
    /\ invoked' = [invoked EXCEPT ![k] = @ + 1]
    /\ UNCHANGED <<sigVars, fnVars, gateVars, parallelExecution, maxParallelAgents, pc, chunkIdx, chunks, chunkNo,
                   results, produced, returned, completedAgents, totalAgents,
                   extendedPhases, analysisPhases, finalRun>>

StartSequential ==
  /\ pc = "sequential"
  /\ StartOne(CoreKeys)

StartConditional ==
  /\ pc = "conditional"
  /\ StartOne(ConditionalKeys)

\* analyze() resolves: the try block stores the result
SettleOk(k) ==
  /\ status[k] = "running"
  /\ \E findings \in FindingsMenu(k) :
       /\ results' = Put(results, k, OkResult(findings))
       /\ returned' = [returned EXCEPT ![k] = OkResult(findings)]
  /\ produced' = [produced EXCEPT ![k] = "returned"]
  /\ status' = [status EXCEPT ![k] = "settled"]
  /\ completedAgents' = completedAgents + 1
  /\ UNCHANGED <<sigVars, fnVars, gateVars, parallelExecution, maxParallelAgents, pc, chunkIdx, chunks, chunkNo,
                 invoked, totalAgents, extendedPhases, analysisPhases, finalRun>>

\* analyze() rejects: the catch block stores the error entry
SettleThrow(k) ==
  /\ status[k] = "running"
  /\ results' = Put(results, k, ErrorEntry)
  /\ produced' = [produced EXCEPT ![k] = "threw"]
  /\ status' = [status EXCEPT ![k] = "settled"]
  /\ completedAgents' = completedAgents + 1
  /\ UNCHANGED <<sigVars, fnVars, gateVars, parallelExecution, maxParallelAgents, pc, chunkIdx, chunks, chunkNo,
                 invoked, returned, totalAgents, extendedPhases, analysisPhases, finalRun>>

\* analyze() awaits a shell command that never exits: execa is called without
\* a timeout, so the promise stays pending
Stall(k) ==
  /\ status[k] = "running"
  /\ status' = [status EXCEPT ![k] = "hung"]
  /\ UNCHANGED <<sigVars, fnVars, gateVars, parallelExecution, maxParallelAgents, pc, chunkIdx, chunks, chunkNo,
                 results, invoked, produced, returned, completedAgents, totalAgents,
                 extendedPhases, analysisPhases, finalRun>>

\* lines 467-480: the extended-forensics marker and the second phase record
AdaptiveTail(ext, phases) ==
  LET ext2 == IF needsExtendedForensics(results)
              THEN Append(ext, "Extended Forensics Analysis")
              ELSE ext
  IN /\ extendedPhases' = ext2
     /\ analysisPhases' = Append(phases, [phase |-> "Adaptive Analysis", extensions |-> ext2])
     /\ pc' = "hostinfo"

\* mutant: the sequential branch records the core phase differently
Phase1DoneSequentialUnrecorded ==
  /\ IF pc = "chunks" THEN chunkNo = Len(chunks) ELSE pc = "sequential"
  /\ \A k \in CoreSet : status[k] = "settled"
  /\ LET phases == IF parallelExecution
                    THEN Append(analysisPhases,
                                [phase |-> "Core Security Analysis", extensions |-> <<>>])
                    ELSE Append(analysisPhases,
                                [phase |-> "Core Security Analysis",
                                 extensions |-> <<"sequential">>])
     IN IF ExtractionThrows(results)
        THEN /\ pc' = "aborted"
             /\ UNCHANGED <<extendedPhases, analysisPhases, totalAgents>>
        ELSE IF hasBlockchainIndicators(results)
        THEN /\ extendedPhases' = Append(extendedPhases, "Blockchain Security Analysis")
             /\ analysisPhases' = phases
             /\ totalAgents' = totalAgents + Len(ConditionalKeys)
             /\ pc' = "conditional"
        ELSE /\ AdaptiveTail(extendedPhases, phases)
             /\ UNCHANGED totalAgents
  /\ UNCHANGED <<sigVars, fnVars, gateVars, parallelExecution, maxParallelAgents, chunkIdx, chunks, chunkNo, status,
                 results, invoked, produced, returned, completedAgents, finalRun>>

\* lines 410-431 and 463-480: phase 1 is over (every chunk joined, or the
\* sequential loop finished) and the blockchain trigger is evaluated; a
\* TypeError of the extraction is caught nowhere in runAnalysis, the promise
\* rejects and index.js run() ends in process.exit(1)
Phase1Done ==
  /\ IF pc = "chunks" THEN chunkNo = Len(chunks) ELSE pc = "sequential"
  /\ \A k \in CoreSet : status[k] = "settled"
  /\ LET phases == Append(analysisPhases,
                          [phase |-> "Core Security Analysis", extensions |-> <<>>])
     IN IF ExtractionThrows(results)
        THEN /\ pc' = "aborted"
             /\ UNCHANGED <<extendedPhases, analysisPhases, totalAgents>>
        ELSE IF hasBlockchainIndicators(results)
        THEN /\ extendedPhases' = Append(extendedPhases, "Blockchain Security Analysis")
             /\ analysisPhases' = phases
             /\ totalAgents' = totalAgents + Len(ConditionalKeys)
             /\ pc' = "conditional"
        ELSE /\ AdaptiveTail(extendedPhases, phases)
             /\ UNCHANGED totalAgents
  /\ UNCHANGED <<sigVars, fnVars, gateVars, parallelExecution, maxParallelAgents, chunkIdx, chunks, chunkNo, status,
                 results, invoked, produced, returned, completedAgents, finalRun>>

\* lines 462-480: the conditional loop is over
ConditionalDone ==
  /\ pc = "conditional"
  /\ \A k \in ConditionalSet : status[k] = "settled"
  /\ AdaptiveTail(extendedPhases, analysisPhases)
  /\ UNCHANGED <<sigVars, fnVars, gateVars, parallelExecution, maxParallelAgents, chunkIdx, chunks, chunkNo, status,
                 results, invoked, produced, returned, completedAgents, totalAgents,
                 finalRun>>

\* lines 484-505: getHostname and getOSVersion return and the run is assembled
Assemble ==
  /\ pc = "hostinfo"
  /\ LET correlatedResults == correlateFindings(results)
     IN finalRun' =
          [agents |-> correlatedResults,
           overallRisk |-> calculateOverallRisk(correlatedResults),
           summary |-> generateSummary(correlatedResults),
           analysisPhases |-> analysisPhases,
           adaptiveAnalysis |->
             [blockchainAnalysisEnabled |-> hasBlockchainIndicators(results),
              extendedForensicsEnabled |-> needsExtendedForensics(results),
              totalAgentsRan |-> Cardinality(DOMAIN correlatedResults)]]
  /\ pc' = "done"
  /\ UNCHANGED <<sigVars, fnVars, gateVars, parallelExecution, maxParallelAgents, chunkIdx, chunks, chunkNo, status,
                 results, invoked, produced, returned, completedAgents, totalAgents,
                 extendedPhases, analysisPhases>>

\* executeShellCommand('hostname') never returns: no timeout is passed to execa
ShellStall ==
  /\ pc = "hostinfo"
  /\ pc' = "stalled"
  /\ UNCHANGED <<sigVars, fnVars, gateVars, parallelExecution, maxParallelAgents, chunkIdx, chunks, chunkNo, status,
                 results, invoked, produced, returned, completedAgents, totalAgents,
                 extendedPhases, analysisPhases, finalRun>>

OrchNext ==
  \/ Begin
  \/ ChunkStep
  \/ ChunkDone
  \/ StartChunk
  \/ StartSequential
  \/ StartConditional
  \/ \E k \in Range(AllKeys) : SettleOk(k)
  \/ \E k \in Range(AllKeys) : SettleThrow(k)
  \/ \E k \in Range(AllKeys) : Stall(k)
  \/ Phase1Done
  \/ ConditionalDone
  \/ Assemble
  \/ ShellStall

(***************************************************************************)
(* SecurityAnalysisCLI.runLLMAnalysis, LLMAnalyzer.analyze and the report  *)
(* data.                                                                   *)
(***************************************************************************)
GateIdle ==
  /\ variant = "gated"
  /\ enabled = TRUE
  /\ apiKey = TRUE
  /\ enableLogging = TRUE
  /\ totalFindings = 0
  /\ builtPrompt = <<>>
  /\ promptOverride = <<>>
  /\ lpc = "idle"
  /\ prompt = <<>>
  /\ securityCheck = NoCheck
  /\ sentPrompts = <<>>
  /\ logFiles = <<>>
  /\ thrown = ""
  /\ response = NullAnalysis
  /\ llmAnalysis = NullAnalysis
  /\ spinner = "none"
  /\ continueWithout = "unasked"
  /\ reportSensitivePatterns = <<>>

GateInit ==
  /\ variant \in {"gated", "ungated"}
  /\ enabled \in BOOLEAN
  /\ apiKey \in BOOLEAN
  /\ enableLogging \in BOOLEAN
  /\ totalFindings \in {0, minFindingsToAnalyze}
  /\ builtPrompt \in Prompts
  /\ promptOverride \in {<<>>, builtPrompt, <<Hex64>>}
  /\ lpc = "cli"
  /\ prompt = <<>>
  /\ securityCheck = NoCheck
  /\ sentPrompts = <<>>
  /\ logFiles = <<>>
  /\ thrown = ""
  /\ response = NullAnalysis
  /\ llmAnalysis = NullAnalysis
  /\ spinner = "none"
  /\ continueWithout = "unasked"
  /\ reportSensitivePatterns = <<>>

\* index.js run(), step 7 with llmProvider 'none': the AI step is not taken
SkipLLM ==
  /\ lpc = "cli"
  /\ lpc' = "reports"
  /\ UNCHANGED <<sigVars, fnVars, orchVars, variant, enabled, apiKey, enableLogging, totalFindings,
                 builtPrompt, promptOverride, prompt, securityCheck, sentPrompts, logFiles,
                 thrown, response, llmAnalysis, spinner, continueWithout,
                 reportSensitivePatterns>>

\* runLLMAnalysis up to the call of analyzer.analyze
RunLLMAnalysis ==
  /\ lpc = "cli"
  /\ spinner' = "spinning"
  /\ lpc' = "analyze"
  /\ UNCHANGED <<sigVars, fnVars, orchVars, variant, enabled, apiKey, enableLogging, totalFindings,
                 builtPrompt, promptOverride, prompt, securityCheck, sentPrompts, logFiles,
                 thrown, response, llmAnalysis, continueWithout, reportSensitivePatterns>>

\* options.promptOverride || this.buildPrompt(results, options)
ChosenPrompt == IF promptOverride # <<>> THEN promptOverride ELSE builtPrompt

\* analyze of the class with the security check, up to the check
AnalyzeGated ==
  /\ lpc = "analyze"
  /\ variant = "gated"
  /\ IF ~enabled
     THEN /\ response' = Response("LLM analysis disabled")
          /\ lpc' = "returned"
          /\ UNCHANGED <<prompt, securityCheck, thrown>>
     ELSE IF totalFindings < minFindingsToAnalyze
     THEN /\ response' = Response("LLM skipped (no significant findings)")
          /\ lpc' = "returned"
          /\ UNCHANGED <<prompt, securityCheck, thrown>>
     ELSE IF ~apiKey
     THEN /\ thrown' = "API key not found"
          /\ lpc' = "threw"
          /\ UNCHANGED <<prompt, securityCheck, response>>
     ELSE /\ prompt' = ChosenPrompt
          /\ securityCheck' = performSecurityCheck(ChosenPrompt)
          /\ IF performSecurityCheck(ChosenPrompt).hasSensitiveData
             THEN /\ thrown' = "SECURITY: Sensitive data detected"
                  /\ lpc' = "threw"
             ELSE /\ lpc' = "checked"
                  /\ UNCHANGED thrown
          /\ UNCHANGED response
  /\ UNCHANGED <<sigVars, fnVars, orchVars, variant, enabled, apiKey, enableLogging, totalFindings,
                 builtPrompt, promptOverride, sentPrompts, logFiles, llmAnalysis, spinner,
                 continueWithout, reportSensitivePatterns>>

\* analyze of the class without the security check, up to the request log
AnalyzeUngated ==
  /\ lpc = "analyze"
  /\ variant = "ungated"
  /\ IF ~apiKey
     THEN /\ thrown' = "API key not found"
          /\ lpc' = "threw"
          /\ UNCHANGED prompt
     ELSE /\ prompt' = ChosenPrompt
          /\ lpc' = "checked"
          /\ UNCHANGED thrown
  /\ UNCHANGED <<sigVars, fnVars, orchVars, variant, enabled, apiKey, enableLogging, totalFindings,
                 builtPrompt, promptOverride, securityCheck, sentPrompts, logFiles,
                 response, llmAnalysis, spinner, continueWithout, reportSensitivePatterns>>

\* a file written under logDir
Logged(kind, content) ==
  IF enableLogging THEN Append(logFiles, [kind |-> kind, content |-> content]) ELSE logFiles

\* logRequest and the call of analyzeWithOpenAI / analyzeWithClaude
CallProvider ==
  /\ lpc = "checked"
  /\ logFiles' = Logged("request", prompt)
  /\ sentPrompts' = Append(sentPrompts, prompt)
  /\ lpc' = "awaiting"
  /\ UNCHANGED <<sigVars, fnVars, orchVars, variant, enabled, apiKey, enableLogging, totalFindings,
                 builtPrompt, promptOverride, prompt, securityCheck, thrown, response,
                 llmAnalysis, spinner, continueWithout, reportSensitivePatterns>>

\* the provider answers: logResponse, return response
ProviderResolve ==
  /\ lpc = "awaiting"
  /\ logFiles' = Logged("response", <<>>)
  /\ response' = Response("provider analysis")
  /\ lpc' = "returned"
  /\ UNCHANGED <<sigVars, fnVars, orchVars, variant, enabled, apiKey, enableLogging, totalFindings,
                 builtPrompt, promptOverride, prompt, securityCheck, sentPrompts, thrown,
                 llmAnalysis, spinner, continueWithout, reportSensitivePatterns>>

\* the provider call fails: logError, throw 'LLM analysis failed: ...'
ProviderReject ==
  /\ lpc = "awaiting"
  /\ logFiles' = Logged("error", <<>>)
  /\ thrown' = "LLM analysis failed"
  /\ lpc' = "threw"
  /\ UNCHANGED <<sigVars, fnVars, orchVars, variant, enabled, apiKey, enableLogging, totalFindings,
                 builtPrompt, promptOverride, prompt, securityCheck, sentPrompts, response,
                 llmAnalysis, spinner, continueWithout, reportSensitivePatterns>>

\* runLLMAnalysis, after analyze returned: this.llmAnalysis is set
RunLLMSucceed ==
  /\ lpc = "returned"
  /\ llmAnalysis' = response
  /\ spinner' = "succeeded"
  /\ lpc' = "reports"
  /\ UNCHANGED <<sigVars, fnVars, orchVars, variant, enabled, apiKey, enableLogging, totalFindings,
                 builtPrompt, promptOverride, prompt, securityCheck, sentPrompts, logFiles,
                 thrown, response, continueWithout, reportSensitivePatterns>>

\* runLLMAnalysis, catch: whatever analyze threw, the step is shown as failed
\* and the user is asked whether to go on
RunLLMCatch ==
  /\ lpc = "threw"
  /\ spinner' = "failed"
  /\ lpc' = "confirm"
  /\ UNCHANGED <<sigVars, fnVars, orchVars, variant, enabled, apiKey, enableLogging, totalFindings,
                 builtPrompt, promptOverride, prompt, securityCheck, sentPrompts, logFiles,
                 thrown, response, llmAnalysis, continueWithout, reportSensitivePatterns>>

\* mutant: the process exits although the user chose to go on
ConfirmContinueExits ==
  /\ lpc = "confirm"
  /\ continueWithout' = "yes"
  /\ lpc' = "exited"
  /\ UNCHANGED <<sigVars, fnVars, orchVars, variant, enabled, apiKey, enableLogging, totalFindings,
                 builtPrompt, promptOverride, prompt, securityCheck, sentPrompts, logFiles,
                 thrown, response, llmAnalysis, spinner, reportSensitivePatterns>>

\* 'Continue without AI analysis?' answered yes: return null
ConfirmContinue ==
  /\ lpc = "confirm"
  /\ continueWithout' = "yes"
  /\ lpc' = "reports"
  /\ UNCHANGED <<sigVars, fnVars, orchVars, variant, enabled, apiKey, enableLogging, totalFindings,
                 builtPrompt, promptOverride, prompt, securityCheck, sentPrompts, logFiles,
                 thrown, response, llmAnalysis, spinner, reportSensitivePatterns>>

\* 'Continue without AI analysis?' answered no: process.exit(1)
ConfirmAbort ==
  /\ lpc = "confirm"
  /\ continueWithout' = "no"
  /\ lpc' = "exited"
  /\ UNCHANGED <<sigVars, fnVars, orchVars, variant, enabled, apiKey, enableLogging, totalFindings,
                 builtPrompt, promptOverride, prompt, securityCheck, sentPrompts, logFiles,
                 thrown, response, llmAnalysis, spinner, reportSensitivePatterns>>

\* this.llmAnalysis?.securityCheck?.sensitivePatterns || []
prepareSensitivePatterns ==
  IF llmAnalysis.present /\ llmAnalysis.hasSecurityCheck
  THEN securityCheck.sensitivePatterns
  ELSE <<>>

\* generateReports: the report data is prepared from results and llmAnalysis
GenerateReports ==
  /\ lpc = "reports"
  /\ reportSensitivePatterns' = prepareSensitivePatterns
  /\ lpc' = "finished"
  /\ UNCHANGED <<sigVars, fnVars, orchVars, variant, enabled, apiKey, enableLogging, totalFindings,
                 builtPrompt, promptOverride, prompt, securityCheck, sentPrompts, logFiles,
                 thrown, response, llmAnalysis, spinner, continueWithout>>

GateNext ==
  \/ SkipLLM
  \/ RunLLMAnalysis
  \/ AnalyzeGated
  \/ AnalyzeUngated
  \/ CallProvider
  \/ ProviderResolve
  \/ ProviderReject
  \/ RunLLMSucceed
  \/ RunLLMCatch
  \/ ConfirmContinue
  \/ ConfirmAbort
  \/ GenerateReports

(***************************************************************************)
(* The pure functions called on their own, on well-formed and ill-formed   *)
(* arguments.                                                              *)
(***************************************************************************)
NoOut == [done |-> FALSE, threw |-> FALSE, value |-> ""]

\* the call returned v, or ended in the TypeError
Returned(v) == [done |-> TRUE, threw |-> v = Threw, value |-> v]

ReturnedSummary(v) == [done |-> TRUE, threw |-> FALSE, value |-> v]

FnIdle ==
  /\ fn = "none"
  /\ argResults = <<>>
  /\ argFindings = <<>>
  /\ argReported = ""
  /\ argText = <<>>
  /\ sanitized = <<>>
  /\ out = NoOut

\* the Detector results tried: null, the catch block's entry, well-formed
\* results, a result without overallRisk, a result whose findings are not an
\* array, a result with a null finding
EntryShapes ==
  { NullValue,
    ErrorEntry,
    OkResult(<<>>),
    OkResult(<<Plain("low")>>),
    OkResult(<<Plain("high"), Plain("medium")>>),
    [OkResult(<<Plain("medium")>>) EXCEPT !.overallRisk = ""],
    NotArrayResult("high"),
    [OkResult(<<Plain("low")>>) EXCEPT !.findings = <<NullValue, Plain("low")>>] }

FnKeys == {"process", "network"}

ResultMaps == UNION {[D -> EntryShapes] : D \in SUBSET FnKeys}

FindingShapes == {Plain("high"), Plain("medium"), Plain("low"), NullValue}

FindingLists == UNION {[1..n -> FindingShapes] : n \in 0..MaxFindings}

ReportedRisks == {"", "low", "medium", "high", "unknown"}

FnInit ==
  /\ out = NoOut
  /\ sanitized = <<>>
  /\ \/ /\ fn = "sanitizeText"
        /\ argText \in Texts
        /\ argResults = <<>>
        /\ argFindings = <<>>
        /\ argReported = ""
     \/ /\ fn = "isLikelySeedPhrase"
        /\ argText \in Candidates
        /\ argResults = <<>>
        /\ argFindings = <<>>
        /\ argReported = ""
     \/ /\ fn = "detect"
        /\ argText \in Candidates \cup Texts
        /\ argResults = <<>>
        /\ argFindings = <<>>
        /\ argReported = ""
     \/ /\ fn \in {"calculateOverallRisk", "calculateOverallRiskLegacy", "generateSummary"}
        /\ \/ argResults \in ResultMaps
           \/ argResults \in {NullValue, NotAnObject}
        /\ argFindings = <<>>
        /\ argReported = ""
        /\ argText = <<>>
     \/ /\ fn \in {"deriveRiskFromFindings", "deriveOverallRisk"}
        /\ argText = <<>>
        /\ argResults = <<>>
        /\ argFindings \in FindingLists
        /\ argReported \in ReportedRisks
     \/ /\ fn = "BaseAgent.calculateOverallRisk"
        /\ argText = <<>>
        /\ argResults = <<>>
        /\ argFindings \in FindingLists
        /\ argReported = ""

CallCalculateOverallRisk ==
  /\ fn = "calculateOverallRisk"
  /\ ~out.done
  /\ out' = Returned(calculateOverallRisk(argResults))
  /\ UNCHANGED <<sigVars, orchVars, gateVars, fn, argResults, argFindings, argReported, argText,
                 sanitized>>

CallCalculateOverallRiskLegacy ==
  /\ fn = "calculateOverallRiskLegacy"
  /\ ~out.done
  /\ out' = Returned(calculateOverallRiskLegacy(argResults))
  /\ UNCHANGED <<sigVars, orchVars, gateVars, fn, argResults, argFindings, argReported, argText,
                 sanitized>>

CallGenerateSummary ==
  /\ fn = "generateSummary"
  /\ ~out.done
  /\ out' = ReturnedSummary(generateSummary(argResults))
  /\ UNCHANGED <<sigVars, orchVars, gateVars, fn, argResults, argFindings, argReported, argText,
                 sanitized>>

CallDeriveRiskFromFindings ==
  /\ fn = "deriveRiskFromFindings"
  /\ ~out.done
  /\ out' = Returned(deriveRiskFromFindings(argFindings, argReported))
  /\ UNCHANGED <<sigVars, orchVars, gateVars, fn, argResults, argFindings, argReported, argText,
                 sanitized>>

CallDeriveOverallRisk ==
  /\ fn = "deriveOverallRisk"
  /\ ~out.done
  /\ out' = Returned(deriveOverallRisk(argFindings, argReported))
  /\ UNCHANGED <<sigVars, orchVars, gateVars, fn, argResults, argFindings, argReported, argText,
                 sanitized>>

\* f.risk is read from every finding: a null finding ends the call
CallBaseRisk ==
  /\ fn = "BaseAgent.calculateOverallRisk"
  /\ ~out.done
  /\ out' = IF \E j \in 1..Len(argFindings) : IsNull(argFindings[j])
            THEN Returned(Threw)
            ELSE Returned(BaseRisk(argFindings))
  /\ UNCHANGED <<sigVars, orchVars, gateVars, fn, argResults, argFindings, argReported, argText,
                 sanitized>>

\* the text is sanitized ...
CallSanitizeText ==
  /\ fn = "sanitizeText"
  /\ sanitized' = sanitizeText(argText)
  /\ fn' = "performSecurityCheck"
  /\ UNCHANGED <<sigVars, orchVars, gateVars, argResults, argFindings, argReported, argText, out>>

\* ... and the sanitized text is put through the sensitive-data check
CallPerformSecurityCheck ==
  /\ fn = "performSecurityCheck"
  /\ ~out.done
  /\ out' = ReturnedSummary(performSecurityCheck(sanitized))
  /\ UNCHANGED <<sigVars, orchVars, gateVars, fn, argResults, argFindings, argReported, argText,
                 sanitized>>

\* LLMAnalyzer.isLikelySeedPhrase on a candidate of its own
CallIsLikelySeedPhrase ==
  /\ fn = "isLikelySeedPhrase"
  /\ ~out.done
  /\ out' = ReturnedSummary(isLikelySeedPhrase(argText))
  /\ UNCHANGED <<sigVars, orchVars, gateVars, fn, argResults, argFindings, argReported, argText,
                 sanitized>>

\* LLMAnalyzer.performSecurityCheck on a text as it is
CallDetect ==
  /\ fn = "detect"
  /\ ~out.done
  /\ out' = ReturnedSummary(performSecurityCheck(argText))
  /\ UNCHANGED <<sigVars, orchVars, gateVars, fn, argResults, argFindings, argReported, argText,
                 sanitized>>

FnNext ==
  \/ CallIsLikelySeedPhrase
  \/ CallDetect
  \/ CallSanitizeText
  \/ CallPerformSecurityCheck
  \/ CallCalculateOverallRisk
  \/ CallCalculateOverallRiskLegacy
  \/ CallGenerateSummary
  \/ CallDeriveRiskFromFindings
  \/ CallDeriveOverallRisk
  \/ CallBaseRisk

(***************************************************************************)
(* utils/signature.js: getSignatureAssessment with a cache shared by its   *)
(* callers.  A call runs from one await to the next without interruption;  *)
(* the calls interleave at the awaits of the two shell commands.           *)
(***************************************************************************)
\* the filePath arguments tried: two executables, an executable with
\* arguments, a relative path, a path that is not on disk
FilePaths == {"/bin/a", "/bin/a --flag", "/bin/b", "relative/tool", "/gone"}

\* existsSync
OnDisk == {"/bin/a", "/bin/b"}

\* path.split(' ')[0]
FirstToken(p) == IF p = "/bin/a --flag" THEN "/bin/a" ELSE p

\* path.includes(' ')
IncludesSpace(p) == p = "/bin/a --flag"

\* path.startsWith('/')
StartsWithSlash(p) == p # "relative/tool"

\* lines 39-49: the path the assessment is made for
ResolvedPath(rawPath) ==
  IF IncludesSpace(rawPath) /\ StartsWithSlash(rawPath) /\ FirstToken(rawPath) \in OnDisk
  THEN FirstToken(rawPath)
  ELSE rawPath

\* what the two commands print
SpctlOutputs == {"/bin: accepted", "/bin: rejected"}

CodesignOutputs == {"Authority=Software Signing, Authority=Apple Root CA",
                    "Authority=Developer ID Application: Vendor"}

\* the authorities parsed from the codesign output
Authorities(codesignOutput) ==
  CASE codesignOutput = "Authority=Software Signing, Authority=Apple Root CA"
         -> <<"Software Signing", "Apple Root CA">>
    [] codesignOutput = "Authority=Developer ID Application: Vendor"
         -> <<"Developer ID Application: Vendor">>
    [] OTHER -> <<>>

\* lines 54-66: the result for a path that is not absolute or not on disk
Unassessed(rawPath, exists, hasAbsolutePath) ==
  [path |-> rawPath, exists |-> exists, hasAbsolutePath |-> hasAbsolutePath,
   spctlAccepted |-> FALSE, spctlOutput |-> "", codesignOutput |-> "",
   teamIdentifier |-> "null",
   authorities |-> <<>>, signedByApple |-> FALSE, signedByDeveloperId |-> FALSE]

\* lines 85-114: the assessment built from the two outputs (none of the
\* outputs tried has a TeamIdentifier line, so teamIdentifier stays null)
Assessment(path, spctlOutput, codesignOutput) ==
  [path |-> path, exists |-> TRUE, hasAbsolutePath |-> TRUE,
   spctlAccepted |-> spctlOutput = "/bin: accepted",
   spctlOutput |-> spctlOutput, codesignOutput |-> codesignOutput,
   teamIdentifier |-> "null",
   authorities |-> Authorities(codesignOutput),
   signedByApple |-> codesignOutput = "Authority=Software Signing, Authority=Apple Root CA",
   signedByDeveloperId |-> codesignOutput = "Authority=Developer ID Application: Vendor"]

NoAssessment == Unassessed("", FALSE, FALSE)

CallIds == 1..MaxCalls

NotCalled ==
  [at |-> "idle", rawPath |-> "", path |-> "", spctlOutput |-> "",
   readCache |-> FALSE, ranShell |-> FALSE, result |-> NoAssessment]

EmptyCache == [p \in {} |-> NoAssessment]

SigIdle ==
  /\ cacheGiven = TRUE
  /\ cache = EmptyCache
  /\ calls = [c \in CallIds |-> NotCalled]
  /\ spctlIssued = [p \in FilePaths |-> 0]
  /\ codesignIssued = [p \in FilePaths |-> 0]

SigInit ==
  /\ cacheGiven \in BOOLEAN
  /\ cache = EmptyCache
  /\ calls = [c \in CallIds |-> NotCalled]
  /\ spctlIssued = [p \in FilePaths |-> 0]
  /\ codesignIssued = [p \in FilePaths |-> 0]

\* mutant: the assessment is stored under the path as it was passed
CacheKeyRaw(call) == call.rawPath

\* cache.set(path, assessment)
CacheKey(call) == call.path

\* lines 38-76: the call up to its first await: the early return, the cache
\* hit, or the spctl command
Enter(c, rawPath) ==
  /\ calls[c].at = "idle"
  /\ LET path == ResolvedPath(rawPath)
         hasAbsolutePath == StartsWithSlash(path)
         exists == IF hasAbsolutePath THEN path \in OnDisk ELSE FALSE
         entered == [calls[c] EXCEPT !.rawPath = rawPath, !.path = path]
     IN IF ~hasAbsolutePath \/ ~exists
        THEN /\ calls' = [calls EXCEPT ![c] =
                            [entered EXCEPT !.at = "returned",
                                            !.result = Unassessed(rawPath, exists,
                                                                  hasAbsolutePath)]]
             /\ UNCHANGED spctlIssued
        ELSE IF cacheGiven /\ path \in DOMAIN cache
        THEN /\ calls' = [calls EXCEPT ![c] =
                            [entered EXCEPT !.at = "returned", !.readCache = TRUE,
                                            !.result = cache[path]]]
             /\ UNCHANGED spctlIssued
        ELSE /\ calls' = [calls EXCEPT ![c] =
                            [entered EXCEPT !.at = "spctl", !.ranShell = TRUE]]
             /\ spctlIssued' = [spctlIssued EXCEPT ![path] = @ + 1]
  /\ UNCHANGED <<orchVars, gateVars, fnVars, cacheGiven, cache, codesignIssued>>

\* lines 76-83: spctl has printed its output and codesign is run
SpctlReturns(c, output) ==
  /\ calls[c].at = "spctl"
  /\ calls' = [calls EXCEPT ![c].at = "codesign", ![c].spctlOutput = output]
  /\ codesignIssued' = [codesignIssued EXCEPT ![calls[c].path] = @ + 1]
  /\ UNCHANGED <<orchVars, gateVars, fnVars, cacheGiven, cache, spctlIssued>>

\* lines 85-120: codesign has printed its output; the assessment is built,
\* stored in the cache and returned
CodesignReturns(c, output) ==
  /\ calls[c].at = "codesign"
  /\ LET assessment == Assessment(calls[c].path, calls[c].spctlOutput, output)
     IN /\ calls' = [calls EXCEPT ![c].at = "returned", ![c].result = assessment]
        /\ cache' = IF cacheGiven
                    THEN [p \in DOMAIN cache \cup {CacheKey(calls[c])} |->
                            IF p = CacheKey(calls[c]) THEN assessment ELSE cache[p]]
                    ELSE cache
  /\ UNCHANGED <<orchVars, gateVars, fnVars, cacheGiven, spctlIssued, codesignIssued>>

SigNext ==
  \/ \E c \in CallIds : \E rawPath \in FilePaths : Enter(c, rawPath)
  \/ \E c \in CallIds : \E output \in SpctlOutputs : SpctlReturns(c, output)
  \/ \E c \in CallIds : \E output \in CodesignOutputs : CodesignReturns(c, output)

\* the Orchestrator at rest while the AI step is examined
OrchIdle ==
  /\ parallelExecution = TRUE
  /\ maxParallelAgents = DefaultParallel
  /\ pc = "idle"
  /\ chunkIdx = 0
  /\ chunks = <<>>
  /\ chunkNo = 0
  /\ status = [k \in Range(AllKeys) |-> "idle"]
  /\ results = EmptyMap
  /\ invoked = [k \in Range(AllKeys) |-> 0]
  /\ produced = [k \in Range(AllKeys) |-> "none"]
  /\ returned = [k \in Range(AllKeys) |-> ErrorEntry]
  /\ completedAgents = 0
  /\ totalAgents = 0
  /\ extendedPhases = <<>>
  /\ analysisPhases = <<>>
  /\ finalRun = EmptyRun

Init == OrchInit /\ GateIdle /\ FnIdle /\ SigIdle

Next == OrchNext

Spec == Init /\ [][Next]_vars

\* runAnalysis of an Orchestrator constructed with any maxParallelAgents
OptionSpecInit == OrchInitAnyOption /\ GateIdle /\ FnIdle /\ SigIdle

OptionSpecNext == OrchNext

OptionSpec == OptionSpecInit /\ [][OptionSpecNext]_vars

\* the AI step of the CLI
GateSpecInit == OrchIdle /\ GateInit /\ FnIdle /\ SigIdle

GateSpecNext == GateNext

GateSpec == GateSpecInit /\ [][GateSpecNext]_vars

\* the functions on their own
FnSpecInit == OrchIdle /\ GateIdle /\ FnInit /\ SigIdle

FnSpecNext == FnNext

FnSpec == FnSpecInit /\ [][FnSpecNext]_vars

\* concurrent getSignatureAssessment calls
SigSpecInit == OrchIdle /\ GateIdle /\ FnIdle /\ SigInit

SigSpecNext == SigNext

SigSpec == SigSpecInit /\ [][SigSpecNext]_vars

(***************************************************************************)
(* Vocabulary of the claims about the outbound prompt.                     *)
(***************************************************************************)
\* a seed phrase: 12 to 24 consecutive tokens that are distinct alphabetic
\* words, none of them a stopword
IsSeedPhraseAt(p, i, n) ==
  /\ i + n - 1 <= Len(p)
  /\ \A j \in i..(i + n - 1) : IsWord(p[j]) /\ ToLower(p[j]) \notin stopwords
  /\ \A j, l \in i..(i + n - 1) : j # l => p[j] # p[l]

ContainsSeedPhrase(p) ==
  \E i \in 1..Len(p) : \E n \in MinSeedWords..MaxSeedWords : IsSeedPhraseAt(p, i, n)

\* the check ran in this run and reported sensitive data
GateTripped == securityCheck.ran /\ securityCheck.hasSensitiveData

\* C1: every prompt handed to the provider was first put through the
\* sensitive-data check, as exactly the text that is sent, and the check
\* reported no sensitive data.
C1_CheckedBeforeSend ==
  \A j \in 1..Len(sentPrompts) :
    /\ securityCheck.ran
    /\ securityCheck.text = sentPrompts[j]
    /\ ~securityCheck.hasSensitiveData

\* C2: a checked prompt that contains a seed phrase, whatever surrounds it,
\* is reported as sensitive and is never handed to the provider.
C2_SeedPhraseBlocked ==
  (securityCheck.ran /\ ContainsSeedPhrase(securityCheck.text))
    => (securityCheck.hasSensitiveData /\ sentPrompts = <<>>)

\* C3: once the gate has tripped, the AI step is never shown as failed, the
\* user is never asked whether to go on, and the process cannot exit before
\* the reports.
C3_TripIsSkippedNotFailed ==
  GateTripped => (spinner # "failed" /\ lpc \notin {"confirm", "exited"})

\* C4: when the gate tripped and the reports are generated, the report data's
\* sensitivePatterns are the patterns the check found (name, count, samples).
C4_TripReachesReport ==
  (GateTripped /\ lpc = "finished")
    => (reportSensitivePatterns # <<>>
        /\ reportSensitivePatterns = securityCheck.sensitivePatterns)

(***************************************************************************)
(* Vocabulary of the claims about the run, stated without the operators of *)
(* the Orchestrator.                                                       *)
(***************************************************************************)
\* the phase-1 part of the results map
Phase1Results == [k \in DOMAIN results \cap CoreSet |-> results[k]]

\* spellings of a blockchain keyword or domain in the vocabulary of the model
ChainWords == {"uniswap", "Uniswap", "etherscan", "Etherscan"}

\* a process finding whose text mentions a blockchain keyword
ProcessMentions(res) ==
  /\ "process" \in DOMAIN res
  /\ \E j \in 1..Len(res["process"].findings) :
        res["process"].findings[j].words \cap ChainWords # {}

\* a network finding whose remoteAddress field names a blockchain domain
NetworkMentions(res) ==
  /\ "network" \in DOMAIN res
  /\ \E j \in 1..Len(res["network"].findings) :
        res["network"].findings[j].remoteAddress \cap ChainWords # {}

IndicatorFound(res) == ProcessMentions(res) \/ NetworkMentions(res)

\* the number of findings of risk r in a result map
RiskCount(res, r) ==
  Cardinality({kj \in UNION {{<<k, j>> : j \in 1..Len(res[k].findings)} : k \in DOMAIN res} :
                 res[kj[1]].findings[kj[2]].risk = r})

DepthTrigger(res) == RiskCount(res, "high") > 0 \/ RiskCount(res, "medium") >= 5

CoreSettled == \A k \in CoreSet : status[k] = "settled"

ConditionalRan == \A c \in ConditionalSet : invoked[c] = 1

ConditionalUntouched == \A c \in ConditionalSet : invoked[c] = 0 /\ status[c] = "idle"

RiskRank(r) == CASE r = "high" -> 3 [] r = "medium" -> 2 [] r = "low" -> 1 [] OTHER -> 0

MaxRisk(S) == IF S = {} THEN "unknown"
              ELSE CHOOSE r \in S : \A q \in S : RiskRank(q) <= RiskRank(r)

\* the risk of the Detectors that did not fail
RemainingRisk == MaxRisk({returned[k].overallRisk : k \in {x \in Range(AllKeys) : produced[x] = "returned"}})

\* the chunk (by position in `chunks`) a core Detector belongs to
ChunkOf(k) == CHOOSE n \in 1..Len(chunks) : k \in Range(chunks[n])

(***************************************************************************)
(* Claims.                                                                 *)
(***************************************************************************)
\* C5: in the parallel core phase never more than maxParallelAgents Detectors
\* are in flight, and a Detector of a later chunk is not started while a
\* Detector of an earlier chunk has not settled.
C5_BoundedChunks ==
  (parallelExecution /\ pc = "chunks") =>
     /\ Cardinality(InFlight) <= maxParallelAgents
     /\ \A a \in CoreSet : \A b \in CoreSet :
          (ChunkOf(a) < ChunkOf(b) /\ status[b] # "idle") => status[a] = "settled"

\* C5 witness: the second chunk of a three-wide run is fully in flight
C5_Witness ==
  /\ parallelExecution /\ pc = "chunks" /\ maxParallelAgents = 3 /\ chunkNo = 2
  /\ Cardinality(InFlight) = 3

\* C6: a Detector whose analyze() throws gets the error entry, every other
\* Detector is still run and keeps its own result, and the overall risk of
\* the completed run is the one of the Detectors that did not fail.
C6_FailureIsolated ==
  (pc = "done" /\ \E k \in CoreSet : produced[k] = "threw") =>
     /\ \A k \in CoreSet : invoked[k] = 1
     /\ \A k \in DOMAIN finalRun.agents :
          /\ produced[k] = "threw" => finalRun.agents[k] = ErrorEntry
          /\ produced[k] = "returned" => finalRun.agents[k] = returned[k]
     /\ finalRun.overallRisk = RemainingRisk

\* C7: a Detector or shell call that never returns does not keep the run from
\* completing: as long as the run is not complete, some step can be taken.
C7_RunCompletes ==
  ((\E k \in Range(AllKeys) : status[k] = "hung") \/ pc = "stalled") =>
     (pc = "done" \/ ENABLED Next)

\* C8 (as claimed): the conditional Detectors are run iff an indicator was
\* found or the depth trigger (a high finding, or five medium ones) fired.
C8_EitherTriggerRuns ==
  pc = "done" =>
     (ConditionalRan <=> (IndicatorFound(Phase1Results) \/ DepthTrigger(Phase1Results)))

\* C8 (amended): the conditional Detectors are run iff an indicator was found
\* in the phase-1 results; the depth trigger alone runs no Detector and only
\* records the Extended Forensics Analysis extension.
C8_IndicatorTriggerOnly ==
  /\ ~ConditionalUntouched => (CoreSettled /\ IndicatorFound(Phase1Results))
  /\ pc = "done" =>
       /\ ConditionalRan <=> IndicatorFound(Phase1Results)
       /\ ~ConditionalRan => ConditionalUntouched
       /\ (DepthTrigger(Phase1Results) /\ ~IndicatorFound(Phase1Results)) =>
            /\ finalRun.adaptiveAnalysis.extendedForensicsEnabled
            /\ finalRun.analysisPhases[2].extensions = <<"Extended Forensics Analysis">>

\* C8 witness: an indicator alone (no high finding, under five medium ones)
\* made the conditional Detectors run
C8_Witness ==
  /\ pc = "done" /\ ConditionalRan
  /\ IndicatorFound(Phase1Results) /\ ~DepthTrigger(Phase1Results)

\* C9: without indicator, high finding or five medium findings in phase 1, no
\* conditional Detector is ever invoked, the final run holds exactly the six
\* core entries and blockchainAnalysisEnabled is false.
C9_QuietRunStaysCore ==
  (CoreSettled /\ ~IndicatorFound(Phase1Results) /\ ~DepthTrigger(Phase1Results)) =>
     /\ ConditionalUntouched
     /\ pc = "done" =>
          /\ DOMAIN finalRun.agents = CoreSet
          /\ finalRun.adaptiveAnalysis.blockchainAnalysisEnabled = FALSE
          /\ finalRun.adaptiveAnalysis.totalAgentsRan = 6

\* C9 witness: all six core Detectors returned only low findings, none of
\* them mentioning a blockchain word, and the run completed
C9_Witness ==
  /\ pc = "done"
  /\ \A k \in CoreSet :
        /\ produced[k] = "returned"
        /\ Len(returned[k].findings) > 0
        /\ \A j \in 1..Len(returned[k].findings) :
              /\ returned[k].findings[j].risk = "low"
              /\ returned[k].findings[j].words \cap ChainWords = {}
  /\ DOMAIN finalRun.agents = CoreSet

\* C10: when a phase-1 process finding mentions a blockchain keyword, the two
\* conditional Detectors are invoked once each, only after all six core
\* Detectors settled, and the completed run holds eight entries, also when a
\* conditional Detector failed.
C10_KeywordRunsConditional ==
  /\ \A c \in ConditionalSet : status[c] # "idle" => CoreSettled
  /\ (pc = "done" /\ ProcessMentions(Phase1Results)) =>
       /\ \A c \in ConditionalSet : invoked[c] = 1
       /\ DOMAIN finalRun.agents = CoreSet \cup ConditionalSet
       /\ finalRun.adaptiveAnalysis.totalAgentsRan = 8
       /\ finalRun.adaptiveAnalysis.blockchainAnalysisEnabled = TRUE
       /\ \A c \in ConditionalSet :
            produced[c] = "threw" => finalRun.agents[c] = ErrorEntry

\* C10 witness: the process Detector reported two high findings mentioning
\* uniswap, one conditional Detector failed, and the run completed
C10_Witness ==
  /\ pc = "done"
  /\ produced["process"] = "returned"
  /\ Len(returned["process"].findings) = 2
  /\ \A j \in 1..2 : /\ returned["process"].findings[j].risk = "high"
                       /\ "uniswap" \in returned["process"].findings[j].words
  /\ produced["defi"] = "threw"
  /\ produced["blockchain"] = "returned"

(***************************************************************************)
(* Vocabulary of the claims about the risk and summary functions.          *)
(***************************************************************************)
\* the risk a Detector result counts with: a missing or errored result, and
\* a result without a risk, count as unknown
CountedRisk(e) ==
  IF IsNull(e) THEN "unknown"
  ELSE IF e.error # "" THEN "unknown"
  ELSE IF e.overallRisk \in {"high", "medium", "low"} THEN e.overallRisk
  ELSE "unknown"

SomeFinding(F, r) == \E j \in 1..Len(F) : ~IsNull(F[j]) /\ F[j].risk = r

AllFindings(F) == \A j \in 1..Len(F) : ~IsNull(F[j])

\* C11: calculateOverallRisk returns the maximum, under high > medium > low >
\* unknown, of the risks of all Detector results, a missing or errored result
\* counting as unknown.
C11_OverallIsMax ==
  (fn = "calculateOverallRisk" /\ out.done)
    => out.value = IF IsObject(argResults)
                   THEN MaxRisk({CountedRisk(argResults[k]) : k \in DOMAIN argResults})
                   ELSE "unknown"

\* C12: the risk derived from a list of findings is high iff some finding is
\* high, else medium iff some finding is medium, else low.
C12_RiskFromFindings ==
  (fn \in {"deriveRiskFromFindings", "BaseAgent.calculateOverallRisk"}
     /\ out.done /\ AllFindings(argFindings))
    => /\ out.value \in {"high", "medium", "low"}
       /\ out.value = "high" <=> SomeFinding(argFindings, "high")
       /\ out.value = "medium" <=> (~SomeFinding(argFindings, "high")
                                    /\ SomeFinding(argFindings, "medium"))

\* C12 witness: a list with a low, a medium and a high finding was rated high
C12_Witness ==
  /\ fn = "deriveRiskFromFindings" /\ out.done /\ out.value = "high"
  /\ Len(argFindings) = 3 /\ AllFindings(argFindings)
  /\ argFindings[1].risk = "low" /\ argFindings[2].risk = "medium"
  /\ argFindings[3].risk = "high"

\* C13: deriveRiskFromFindings depends on the findings alone when there are
\* findings, and returns the reported risk ('unknown' when none is given)
\* when there are none.
C13_ReportedRiskBreaksTie ==
  (fn = "deriveRiskFromFindings" /\ out.done)
    => out.value =
         IF Len(argFindings) = 0
         THEN (IF argReported = "" THEN "unknown" ELSE argReported)
         ELSE IF SomeFinding(argFindings, "high") THEN "high"
         ELSE IF SomeFinding(argFindings, "medium") THEN "medium"
         ELSE "low"

\* the length of the findings list of a Detector result (0 without a list)
ListLength(e) ==
  IF IsNull(e) THEN 0
  ELSE IF e.hasFindings /\ "notArray" \notin DOMAIN e THEN Len(e.findings)
  ELSE 0

RECURSIVE SumOver(_, _)
SumOver(res, K) ==
  IF K = {} THEN 0
  ELSE LET k == CHOOSE x \in K : TRUE
       IN ListLength(res[k]) + SumOver(res, K \ {k})

NullFindings(e) ==
  IF IsNull(e) THEN 0
  ELSE IF e.hasFindings /\ "notArray" \notin DOMAIN e
  THEN Cardinality({j \in 1..Len(e.findings) : IsNull(e.findings[j])})
  ELSE 0

\* a result map with something missing or malformed in it
Malformed(res) ==
  \/ ~IsObject(res)
  \/ \E k \in DOMAIN res :
       \/ IsNull(res[k])
       \/ "notArray" \in DOMAIN res[k]
       \/ NullFindings(res[k]) > 0

SummaryReturned == fn = "generateSummary" /\ out.done

C15_MalformedCarriesError ==
  (SummaryReturned /\ Malformed(argResults))
    => (~out.threw /\ out.value.error # "")

\* C15 amended: generateSummary never throws; the summary carries an error
\* field exactly when the result map itself is null or not an object; a null
\* entry gets an error in agentSummaries, findings that are not a list count
\* as no findings, and a null finding is counted in totalFindings but in no
\* risk bucket.
C15_ErrorOnlyForInvalidMap ==
  SummaryReturned
    => /\ ~out.threw
       /\ out.value.error # "" <=> ~IsObject(argResults)
       /\ IsObject(argResults) =>
            /\ \A k \in DOMAIN argResults :
                 /\ IsNull(argResults[k]) =>
                      out.value.agentSummaries[k] = [error |-> "Result is null or undefined"]
                 /\ (~IsNull(argResults[k]) /\ "notArray" \in DOMAIN argResults[k]) =>
                      out.value.agentSummaries[k].findings = 0
            /\ out.value.totalFindings =
                 out.value.highRiskFindings + out.value.mediumRiskFindings
                   + out.value.lowRiskFindings
                   + SumOver([k \in DOMAIN argResults |->
                                [hasFindings |-> TRUE,
                                 findings |-> [j \in 1..NullFindings(argResults[k]) |-> 0]]],
                             DOMAIN argResults)

\* C15 witness: a map with a null entry was summarised without an error field
C15_Witness ==
  /\ SummaryReturned
  /\ IsObject(argResults)
  /\ \E k \in DOMAIN argResults : IsNull(argResults[k])
  /\ out.value.error = ""

(***************************************************************************)
(* Vocabulary of the claims about aggregation and degraded paths.          *)
(***************************************************************************)
\* the Detectors that have completed, with the entry each one's outcome calls for
Completed == {k \in Range(AllKeys) : produced[k] # "none"}

OutcomeEntry(k) == IF produced[k] = "threw" THEN ErrorEntry ELSE returned[k]

ExpectedAgents == [k \in Completed |-> OutcomeEntry(k)]

\* some network finding carries an address the extraction cannot read
ExtractionFails(res) ==
  /\ "network" \in DOMAIN res
  /\ \E j \in 1..Len(res["network"].findings) :
       res["network"].findings[j].remoteAddress = NotAString

\* C16: at every moment the result map holds, under each completed Detector's
\* own key, exactly the entry of that Detector's outcome, whatever the order
\* of completion; the final run is computed from that map alone.
C16_KeyedAggregation ==
  /\ DOMAIN results = Completed
  /\ \A k \in Completed : results[k] = OutcomeEntry(k)
  /\ pc = "done" =>
       /\ finalRun.agents = ExpectedAgents
       /\ finalRun.overallRisk = calculateOverallRisk(ExpectedAgents)
       /\ finalRun.summary = generateSummary(ExpectedAgents)
       /\ finalRun.adaptiveAnalysis.totalAgentsRan = Cardinality(Completed)
       /\ finalRun.adaptiveAnalysis.blockchainAnalysisEnabled
            = IndicatorFound(ExpectedAgents)
       /\ finalRun.adaptiveAnalysis.extendedForensicsEnabled
            = DepthTrigger(ExpectedAgents)

\* C16 witness: in a three-wide chunk the last Detector of the chunk has
\* completed while the first is still running and the second has failed
C16_Witness ==
  /\ parallelExecution /\ maxParallelAgents = 3 /\ pc = "chunks" /\ chunkNo = 2
  /\ status["process"] = "running"
  /\ produced["network"] = "threw"
  /\ produced["permission"] = "returned"
  /\ DOMAIN results = CoreSet \ {"process"}

\* C17: when the indicator extraction fails on the phase-1 results, the run
\* is not aborted, no conditional Detector is run, and the run can go on to
\* completion.
C17_ExtractionFailsOpen ==
  (CoreSettled /\ ExtractionFails(results))
    => /\ pc # "aborted"
       /\ ConditionalUntouched
       /\ (pc = "done" \/ ENABLED Next)

ProviderFailed == thrown = "LLM analysis failed"

\* C19 as stated: after a failed provider call the process never exits, the
\* AI step can always go on to the reports, and the reports are generated
\* with no AI analysis attached.
C19_ProviderFailureRecoverable ==
  ProviderFailed
    => /\ lpc # "exited"
       /\ (lpc = "finished" \/ ENABLED GateSpecNext)
       /\ ~llmAnalysis.present

\* C19 amended: after a failed provider call the user is asked whether to go
\* on; the process exits exactly when the answer is no, and otherwise the
\* reports are reached with no AI analysis attached.
C19_RecoverableIfConfirmed ==
  ProviderFailed
    => /\ lpc = "exited" <=> continueWithout = "no"
       /\ lpc \in {"reports", "finished"} => continueWithout = "yes"
       /\ lpc \in {"threw", "confirm"} => continueWithout = "unasked"
       /\ lpc \in {"threw", "confirm", "reports", "finished", "exited"}
       /\ (lpc \in {"finished", "exited"} \/ ENABLED GateSpecNext)
       /\ ~llmAnalysis.present

\* C19 witness: the provider call failed, the user chose to go on, and the
\* reports were generated without an AI analysis
C19_Witness ==
  /\ ProviderFailed
  /\ Len(sentPrompts) = 1
  /\ continueWithout = "yes"
  /\ lpc = "finished"
  /\ ~llmAnalysis.present

(***************************************************************************)
(* Vocabulary of the claim about the sanitizer.                            *)
(***************************************************************************)
\* the secrets of the covered shapes: a 64-hex key, a 0x+40-hex address, a
\* Bitcoin-shaped address, API tokens, key=value secrets
CoveredSecrets ==
  {Hex64, EthAddr, BtcAddr, ApiToken, Base64Token, SeedSecret, PrivateEq}

ContainsCovered(x) ==
  \/ \E j \in 1..Len(x) : x[j] \in CoveredSecrets
  \/ ContainsSeedPhrase(x)

\* C20: for every text that contains an instance of a covered pattern, the
\* sensitive-data check on the sanitized text reports no sensitive data.
C20_SanitizedTextIsClean ==
  (fn = "performSecurityCheck" /\ out.done /\ ContainsCovered(argText))
    => ~out.value.hasSensitiveData

(***************************************************************************)
(* Vocabulary of the claims about the seed-phrase classifier.              *)
(***************************************************************************)
\* the positions of a word sequence that hold a domain stopword
StopwordPositions(ws) == {j \in 1..Len(ws) : ToLower(ws[j]) \in stopwords}

\* the positions that repeat a word of an earlier position
DuplicatePositions(ws) ==
  {j \in 1..Len(ws) : \E i \in 1..(j - 1) : ToLower(ws[i]) = ToLower(ws[j])}

AllAlphabetic(ws) == \A j \in 1..Len(ws) : ws[j] # MixedWord

\* the four conditions of the classifier
Acceptable(ws) ==
  /\ Len(ws) \in 12..24
  /\ AllAlphabetic(ws)
  /\ Cardinality(StopwordPositions(ws)) <= 2
  /\ Cardinality(DuplicatePositions(ws)) <= 2

\* the check's result lists the seed-phrase pattern
SeedFlagged(check) ==
  \E j \in 1..Len(check.sensitivePatterns) :
    check.sensitivePatterns[j].name = "Potential seed phrase"

\* C21: the classifier accepts a word sequence exactly when its word count is
\* in [12,24], every word is alphabetic, at most 2 words are stopwords and at
\* most 2 words are duplicates; the check run on a sequence of alphabetic
\* words flags a seed phrase under exactly these conditions.
C21_ClassifierConditions ==
  /\ (fn = "isLikelySeedPhrase" /\ out.done) => (out.value <=> Acceptable(argText))
  /\ (fn = "detect" /\ out.done /\ argText \in Candidates /\ AllAlphabetic(argText))
       => (SeedFlagged(out.value) <=> Acceptable(argText))

\* C21 witness: twelve distinct words, none a stopword, were flagged by the
\* check
C21_Witness ==
  /\ fn = "detect"
  /\ out.done
  /\ Len(argText) = 12
  /\ StopwordPositions(argText) = {}
  /\ DuplicatePositions(argText) = {}
  /\ AllAlphabetic(argText)
  /\ SeedFlagged(out.value)
(***************************************************************************)
(* Vocabulary of the claim about the samples of a match record.            *)
(***************************************************************************)
\* the texts the patterns matched in a text, pattern by pattern, for the
\* patterns that matched at all
MatchedTexts(text) ==
  SelectSeq(PatternMatches(text), LAMBDA row : Len(row.matches) > 0)

\* the positions at which a sample shows the character of the matched text
Revealed(sample, match) ==
  {k \in 1..Min(Len(sample), Len(match)) : sample[k] = match[k]}

\* C22: every match record holds at most 2 samples, each sample is at most
\* 20 characters of the matched text plus the 3-character marker, and no
\* sample shows a character of the matched text.
C22_SamplesRevealNothing ==
  (fn = "detect" /\ out.done)
    => \A j \in 1..Len(out.value.sensitivePatterns) :
         LET record == out.value.sensitivePatterns[j]
             texts == MatchedTexts(argText)[j].matches
         IN /\ Len(record.samples) <= 2
            /\ \A i \in 1..Len(record.samples) :
                 /\ Len(record.samples[i]) <= 20 + 3
                 /\ Revealed(record.samples[i], texts[i]) = {}
(***************************************************************************)
(* Vocabulary of the claims about the chunking of the core phase.          *)
(***************************************************************************)
\* the chunks that hold the core Detector k
ChunksOf(k) == {n \in 1..Len(chunks) : k \in Range(chunks[n])}

\* the chunking loop is over
Chunked == parallelExecution /\ pc \notin {"start", "chunking"}

\* C23: for every accepted maxParallelAgents the chunking loop ends after at
\* most one iteration per core Detector, every chunk has between 1 and
\* maxParallelAgents Detectors, the chunks partition the core Detectors, and
\* no core Detector is invoked more than once, each exactly once in a run
\* that completes.
C23_ChunksPartitionCore ==
  /\ Len(chunks) <= Len(CoreKeys)
  /\ \A n \in 1..Len(chunks) :
       Len(chunks[n]) >= 1 /\ Len(chunks[n]) <= maxParallelAgents
  /\ \A k \in CoreSet : Cardinality(ChunksOf(k)) <= 1
  /\ Chunked => \A k \in CoreSet : Cardinality(ChunksOf(k)) = 1
  /\ \A k \in CoreSet : invoked[k] <= 1
  /\ pc = "done" => \A k \in CoreSet : invoked[k] = 1
(***************************************************************************)
(* Vocabulary of the claim about sequential and parallel runs.             *)
(***************************************************************************)
\* the run that the outcomes of the Detectors call for, whatever the way the
\* Detectors were scheduled
OutcomeRun ==
  LET agents == ExpectedAgents
      core == [k \in DOMAIN agents \cap CoreSet |-> agents[k]]
      extensions ==
        (IF IndicatorFound(core) THEN <<"Blockchain Security Analysis">> ELSE <<>>)
          \o (IF DepthTrigger(agents) THEN <<"Extended Forensics Analysis">> ELSE <<>>)
  IN [agents |-> agents,
      overallRisk |-> calculateOverallRisk(agents),
      summary |-> generateSummary(agents),
      analysisPhases |->
        <<[phase |-> "Core Security Analysis", extensions |-> <<>>],
          [phase |-> "Adaptive Analysis", extensions |-> extensions]>>,
      adaptiveAnalysis |->
        [blockchainAnalysisEnabled |-> IndicatorFound(agents),
         extendedForensicsEnabled |-> DepthTrigger(agents),
         totalAgentsRan |-> Cardinality(DOMAIN agents)]]

\* C24: the final run of a completed analysis is determined by the outcomes
\* of the Detectors alone, so a sequential run and a parallel run of any
\* maxParallelAgents with the same outcomes produce the same final run
\* (agents map, overallRisk, summary, analysisPhases, adaptive flags).
C24_SequentialEqualsParallel ==
  pc = "done" =>
    /\ finalRun = OutcomeRun
    /\ Completed = CoreSet \cup (IF IndicatorFound(Phase1Results) THEN ConditionalSet ELSE {})

\* C24 witness: a sequential run completed in which a Detector failed, the
\* conditional Detectors ran and the depth trigger fired
C24_Witness ==
  /\ pc = "done"
  /\ ~parallelExecution
  /\ produced["system"] = "threw"
  /\ Completed = CoreSet \cup ConditionalSet
  /\ finalRun.analysisPhases[2].extensions
       = <<"Blockchain Security Analysis", "Extended Forensics Analysis">>
  /\ finalRun = OutcomeRun
(***************************************************************************)
(* Vocabulary of the claim about the scheduling of the conditional phase.  *)
(***************************************************************************)
\* the conditional Detectors that have been issued
ConditionalIssued == {c \in ConditionalSet : status[c] # "idle"}

\* C25: in a parallel run whose maxParallelAgents is at least 2 the two
\* conditional Detectors are issued together, as one chunk, and the run
\* proceeds past the conditional phase only when both have settled.
C25_ConditionalInChunks ==
  (parallelExecution /\ maxParallelAgents >= 2) =>
    /\ ConditionalIssued \in {{}, ConditionalSet}
    /\ (ConditionalIssued # {} /\ pc # "conditional") =>
         \A c \in ConditionalSet : status[c] = "settled"
(***************************************************************************)
(* Vocabulary of the claims about the shared signature cache.              *)
(***************************************************************************)
\* the paths an assessment can be made for: absolute and on disk
Assessable(p) == StartsWithSlash(p) /\ p \in OnDisk

\* an assessment in which every field has been computed from the outputs of
\* the two commands
CompletelyComputed(a) ==
  /\ a.spctlOutput \in SpctlOutputs
  /\ a.codesignOutput \in CodesignOutputs
  /\ a.spctlAccepted <=> (a.spctlOutput = "/bin: accepted")
  /\ Len(a.authorities) > 0
  /\ a.signedByApple <=> (\E j \in 1..Len(a.authorities) : a.authorities[j] = "Apple Root CA")
  /\ a.signedByDeveloperId
       <=> (\E j \in 1..Len(a.authorities) :
              a.authorities[j] = "Developer ID Application: Vendor")

\* C26: with a shared cache, at every moment of every interleaving, every
\* cache entry keyed p is a completely computed assessment with path = p,
\* exists = true and hasAbsolutePath = true, returned by some call; the
\* result for a path that is not absolute or not on disk is never stored in
\* the cache and never read from it.
C26_CacheEntriesComplete ==
  cacheGiven =>
    /\ \A p \in DOMAIN cache :
         /\ Assessable(p)
         /\ cache[p].path = p
         /\ cache[p].exists
         /\ cache[p].hasAbsolutePath
         /\ CompletelyComputed(cache[p])
         /\ \E c \in CallIds : calls[c].at = "returned" /\ calls[c].result = cache[p]
    /\ \A c \in CallIds :
         (calls[c].at = "returned" /\ ~Assessable(calls[c].path)) =>
            /\ ~calls[c].readCache
            /\ calls[c].path \notin DOMAIN cache
            /\ calls[c].result.path = calls[c].rawPath
            /\ ~(calls[c].result.exists /\ calls[c].result.hasAbsolutePath)

\* C26 witness: two overlapping calls for the same executable, one of them
\* given with arguments, have both run the commands and returned, a third
\* call was made for a path that is not on disk, and the cache holds one entry
C26_Witness ==
  /\ cacheGiven
  /\ \E c \in CallIds : \E d \in CallIds :
       /\ calls[c].at = "returned" /\ calls[c].rawPath = "/bin/a" /\ calls[c].ranShell
       /\ calls[d].at = "returned" /\ calls[d].rawPath = "/bin/a --flag" /\ calls[d].ranShell
  /\ \E e \in CallIds : calls[e].at = "returned" /\ calls[e].rawPath = "/gone"
  /\ DOMAIN cache = {"/bin/a"}

\* C27: with a shared cache, the spctl and codesign commands for a resolved
\* path are issued at most once, also when calls for that path overlap; a
\* call for a path that another call has already begun to assess returns the
\* cached assessment without a shell call.
C27_AssessedOncePerPath ==
  cacheGiven =>
    /\ \A p \in FilePaths : spctlIssued[p] <= 1 /\ codesignIssued[p] <= 1
    /\ \A c \in CallIds : \A d \in CallIds :
         (c # d /\ calls[c].ranShell /\ calls[d].ranShell) => calls[c].path # calls[d].path
(***************************************************************************)
(* Vocabulary of the claim about the logs of the AI step.                  *)
(***************************************************************************)
\* a request, response or error file has been written under logDir
SomethingLogged == logFiles # <<>>

\* C28: a log file is written only after the sensitive-data check has run on
\* the prompt and passed, and in every execution where the check reports
\* sensitive data no request, response or error log entry is written.
C28_LoggedOnlyAfterCheckPassed ==
  /\ SomethingLogged =>
       /\ securityCheck.ran
       /\ securityCheck.text = prompt
       /\ ~securityCheck.hasSensitiveData
  /\ GateTripped => ~SomethingLogged
(***************************************************************************)
(* Vocabulary of the claim about the two risk badges of a Detector.        *)
(***************************************************************************)
\* the risk of the Detector in the run summary, for the arguments of the call
SummaryBadge == deriveRiskFromFindings(argFindings, argReported)

\* C29: for every findings list and every reported risk, the risk the report
\* shows for a Detector equals the risk the run summary shows for it.
C29_BadgesAgree ==
  (fn = "deriveOverallRisk" /\ out.done) => out.value = SummaryBadge

(***************************************************************************)
(* Vocabulary of the claim about network findings as the NetworkAgent      *)
(* writes them.                                                            *)
(***************************************************************************)
\* the positions of the network findings in the NetworkAgent's shape (the
\* remote address in remoteAddr, no remoteAddress) that name a blockchain domain
AgentShaped(res) ==
  IF "network" \in DOMAIN res
  THEN { j \in 1..Len(res["network"].findings) :
           /\ res["network"].findings[j].remoteAddress = {}
           /\ res["network"].findings[j].remoteAddr \cap ChainWords # {} }
  ELSE {}

\* extraction emitted a network Indicator for the finding f
IndicatorFor(res, f) ==
  \E n \in 1..Len(extractBlockchainIndicators(res)) :
     /\ extractBlockchainIndicators(res)[n].type = "network"
     /\ extractBlockchainIndicators(res)[n].source = f

\* C30: for every network finding in the NetworkAgent's shape whose remoteAddr
\* holds a blockchain domain, extraction emits a network Indicator for it and
\* the conditional Detectors are run.
C30_AgentFindingTriggers ==
  pc = "done" =>
     \A j \in AgentShaped(Phase1Results) :
        /\ IndicatorFor(Phase1Results, Phase1Results["network"].findings[j])
        /\ ConditionalRan

====
